---- MODULE Spec2Model ----
(***************************************************************************)
(* Discrete-event LoRa network simulator (VERSION_8/launcher): the event   *)
(* kernel (Simulator), the gateway reception engine (Gateway), the network *)
(* server (NetworkServer), the duty-cycle manager and the channel model.   *)
(*                                                                         *)
(* Units.  Time is counted in ticks of 1/bandwidth seconds (8 microseconds *)
(* at 125 kHz), so that a symbol lasts exactly 2^sf ticks.  Powers, RSSI,  *)
(* SNR and losses are counted in half-dB (the sensitivity table holds      *)
(* -134.5 dBm), so 14 dBm is 28 and the 6 dB capture threshold is 12.      *)
(* Python's None is the empty sequence <<>>; a present value v is <<v>>.   *)
(***************************************************************************)
EXTENDS Integers, Sequences, FiniteSets, TLC

VARIABLES
    cfg,               \* constructor arguments of Simulator (never change)
    nodes,             \* Simulator.nodes: node id -> Node fields
    gateways,          \* gateway id -> Gateway.active_transmissions (a list)
    server,            \* NetworkServer: received_events, event_gateway, packets_received
    event_queue,       \* Simulator.event_queue: the pending event tuples
    current_time,      \* Simulator.current_time
    event_id_counter,  \* Simulator.event_id_counter
    stats,             \* Simulator's cumulative counters
    events_log,        \* Simulator.events_log
    running,           \* Simulator.running
    next_tx_time,      \* DutyCycleManager.next_tx_time (node id -> <<>> or <<t>>)
    last,              \* the latest call made from outside: what it returned or raised (ret,
                       \* value), the event a step() popped, the RSSI a transmission-start
                       \* sampled at each gateway, the arguments of a direct call
    trace              \* history of the calls made across component boundaries: the
                       \* start_reception and end_reception calls as <<gateway, event>>
                       \* (started, ended), the frames flagged lost (lost_at), the calls
                       \* of receive (reported) and, where a gateway is driven directly,
                       \* the frames it was handed with the branch each call took (frames)

vars == <<cfg, nodes, gateways, server, event_queue, current_time,
          event_id_counter, stats, events_log, running, next_tx_time, last, trace>>

-----------------------------------------------------------------------------
(* Bounds of the model *)

\* transmission starts are explored while fewer than MaxSent packets were sent
MaxSent == 4
\* mobility events are explored while fewer than MaxEventId event ids were handed out
MaxEventId == 10
\* direct calls of NetworkServer.receive are explored for event ids 0 .. MaxServerEventId
MaxServerEventId == 2
\* largest packets_to_send explored (0 = unbounded is always explored)
MaxPacketsToSend == 3
\* direct calls of Channel.airtime are explored for every payload size 0 .. MaxPayload
MaxPayload == 24
\* direct calls of Gateway.start_reception are explored for the frames 0 .. MaxGatewayCalls - 1
MaxGatewayCalls == 3
\* the ADR block is followed over MaxAdrEnds transmission-ends of a node
MaxAdrEnds == 2

-----------------------------------------------------------------------------
(* Generic helpers *)

None == <<>>
Some(v) == <<v>>
IsNone(o) == o = <<>>
Val(o) == o[1]

Max(a, b) == IF a >= b THEN a ELSE b
Min(a, b) == IF a <= b THEN a ELSE b

\* math.ceil(n / d) for d > 0
CeilDiv(n, d) == -((-n) \div d)

RECURSIVE Pow2(_)
Pow2(n) == IF n = 0 THEN 1 ELSE 2 * Pow2(n - 1)

\* list.remove(x): removes the first element equal to x; the code swallows ValueError
RECURSIVE ListRemove(_, _)
ListRemove(s, x) ==
    IF s = <<>> THEN <<>>
    ELSE IF Head(s) = x THEN Tail(s)
    ELSE <<Head(s)>> \o ListRemove(Tail(s), x)

SeqToSet(s) == {s[i] : i \in DOMAIN s}

-----------------------------------------------------------------------------
(* Channel (channel.py) *)

SFs == 7..12

\* Channel.sensitivity_dBm, in half-dB; .get(sf, -inf) is not needed for sf in 7..12
sensitivity_dBm(sf) ==
    CASE sf = 7  -> -246
      [] sf = 8  -> -252
      [] sf = 9  -> -258
      [] sf = 10 -> -264
      [] sf = 11 -> -269
      [] sf = 12 -> -274

capture_threshold_dB == 12       \* 6.0 dB
low_data_rate_threshold == 11
coding_rate == 1
payload_size_default == 20

\* an airtime whose symbol time does not grow with sf
airtime_ConstantSymbolTime(sf, payload_size) ==
    LET de          == IF sf >= low_data_rate_threshold THEN 1 ELSE 0
        numerator   == 8 * payload_size - 4 * sf + 28 + 16 - 20 * 0
        denominator == 4 * (sf - 2 * de)
    IN  (8 + Max(CeilDiv(numerator, denominator) * (coding_rate + 4), 0)) * Pow2(7)

\* Channel.airtime(sf, payload_size) in ticks: ts = 1 / (bandwidth / 2^sf) = 2^sf ticks
airtime(sf, payload_size) ==
    LET ts          == Pow2(sf)
        de          == IF sf >= low_data_rate_threshold THEN 1 ELSE 0
        cr_denom    == coding_rate + 4
        numerator   == 8 * payload_size - 4 * sf + 28 + 16 - 20 * 0
        denominator == 4 * (sf - 2 * de)
        payload_symb_nb == 8 + Max(CeilDiv(numerator, denominator) * cr_denom, 0)
    IN  payload_symb_nb * ts

\* Places (x, y) a node can be at: place 1 is 353 m from every gateway, place 2
\* is 10.7 km from every gateway (area_size is a constructor argument).
Positions == {1, 2}

\* Node.distance_to(gateway), in metres
distance_to(pos, gw) == IF pos = 1 THEN 353 ELSE 10700

\* Channel.path_loss(distance) in half-dB: 31.22 + 27 log10(d) dB is 100.0 dB at
\* 353 m and 140.0 dB at 10.7 km
path_loss(distance) ==
    IF distance <= 0 THEN 0
    ELSE IF distance = 353 THEN 200 ELSE 280

\* The samples np.random.normal(0, shadowing_std) is drawn from here: 0 dB and +6 dB
Shadows == {0, 12}

\* Channel.compute_rssi(tx_power_dBm, distance), shadow being this call's sample
compute_rssi(tx_power_dBm, distance, shadow) ==
    LET loss == path_loss(distance) + shadow
    IN  tx_power_dBm - loss

-----------------------------------------------------------------------------
(* DutyCycleManager (duty_cycle.py).  cfg.duty_cycle is <<>> (None) or <<n>>, *)
(* standing for the duty cycle 1/n, so 1.0 / duty_cycle = n.                  *)

NextTxGet(ntt, node_id) == IF IsNone(ntt[node_id]) THEN 0 ELSE Val(ntt[node_id])

can_transmit(ntt, node_id, time) == time >= NextTxGet(ntt, node_id)

\* an update that stores next_time whatever the current value is
update_after_tx_Overwrite(ntt, inv_duty, node_id, start_time, duration) ==
    [ntt EXCEPT ![node_id] = Some(start_time + duration * inv_duty)]

update_after_tx(ntt, inv_duty, node_id, start_time, duration) ==
    LET wait_time == duration * (inv_duty - 1)
        next_time == start_time + duration + wait_time
        cur       == NextTxGet(ntt, node_id)
    IN  IF next_time > cur THEN [ntt EXCEPT ![node_id] = Some(next_time)] ELSE ntt

\* enforce without the duty-cycle bound
enforce_RequestedTime(ntt, node_id, requested_time) == requested_time

enforce(ntt, node_id, requested_time) == Max(requested_time, NextTxGet(ntt, node_id))

-----------------------------------------------------------------------------
(* Gateway (gateway.py).  active is Gateway.active_transmissions, a list of  *)
(* records event_id, node_id, sf, rssi, end_time, lost_flag.                 *)

MaxRssi(S) == CHOOSE m \in S : \A r \in S : m >= r

RECURSIVE RemoveEach(_, _)
\* for t in ts: try: active.remove(t) except ValueError: pass
RemoveEach(active, ts) ==
    IF ts = <<>> THEN active
    ELSE RemoveEach(ListRemove(active, Head(ts)), Tail(ts))

\* the capture branch with the new frame appended whoever won
CaptureInsert_Always(kept, strongest, new_transmission) ==
    Append(kept, new_transmission)

\* if strongest is new_transmission: lost_flag = False and append; else the new
\* frame is not added
CaptureInsert(kept, strongest, new_transmission) ==
    IF strongest = new_transmission
    THEN Append(kept, [new_transmission EXCEPT !.lost_flag = FALSE])
    ELSE kept

\* a test that takes every frame still on air as concurrent, whatever its SF
Concurrent_AnySF(t, sf, now) == t.end_time > now

\* if t['sf'] == sf and t['end_time'] > current_time
Concurrent(t, sf, now) == t.sf = sf /\ t.end_time > now

\* a capture test that wants the strongest strictly more than the threshold above
Captures_Strict(strongest_rssi, second_strongest_rssi, capture_threshold) ==
    strongest_rssi - second_strongest_rssi > capture_threshold

\* if strongest['rssi'] - second_strongest_rssi >= capture_threshold: capture = True
Captures(strongest_rssi, second_strongest_rssi, capture_threshold) ==
    strongest_rssi - second_strongest_rssi >= capture_threshold

\* Gateway.start_reception: the new active list, the event ids whose lost_flag
\* was set to True at some point of the call, and the branch the call took
\* ("clear": no concurrent frame, "capture", "collision": no capture)
start_reception(active, event_id, node_id, sf, rssi, end_time, capture_threshold, now) ==
    LET concIdx == {i \in DOMAIN active : Concurrent(active[i], sf, now)}
        concurrent_transmissions ==
            SelectSeq(active, LAMBDA t : Concurrent(t, sf, now))
        new_transmission ==
            [event_id |-> event_id, node_id |-> node_id, sf |-> sf, rssi |-> rssi,
             end_time |-> end_time, lost_flag |-> FALSE]
        colliders == Append(concurrent_transmissions, new_transmission)
        \* colliders.sort(key=rssi, reverse=True) is stable: colliders[0] is the
        \* first of the strongest, colliders[1] the strongest of the others
        top  == MaxRssi({colliders[i].rssi : i \in DOMAIN colliders})
        sIdx == CHOOSE i \in DOMAIN colliders :
                    /\ colliders[i].rssi = top
                    /\ \A j \in DOMAIN colliders : colliders[j].rssi = top => i <= j
        strongest == colliders[sIdx]
        second_strongest_rssi ==
            MaxRssi({colliders[i].rssi : i \in DOMAIN colliders \ {sIdx}})
        capture == Captures(strongest.rssi, second_strongest_rssi, capture_threshold)
        \* the dicts are shared with active_transmissions: flagging a collider flags the entry
        Flag(t) == [t EXCEPT !.lost_flag = TRUE]
        losersCapture == SelectSeq(concurrent_transmissions, LAMBDA t : t # strongest)
        flaggedActiveCapture ==
            [i \in DOMAIN active |->
                IF i \in concIdx /\ active[i] # strongest THEN Flag(active[i]) ELSE active[i]]
        flaggedActiveAll ==
            [i \in DOMAIN active |-> IF i \in concIdx THEN Flag(active[i]) ELSE active[i]]
        lostSeq(ts) == [i \in DOMAIN ts |-> Flag(ts[i])]
    IN  IF concurrent_transmissions = <<>>
        THEN [active |-> Append(active, new_transmission), flagged |-> {},
              outcome |-> "clear"]
        ELSE IF capture
        THEN LET kept == RemoveEach(flaggedActiveCapture, lostSeq(losersCapture))
             IN  [active  |-> CaptureInsert(kept, strongest, new_transmission),
                  flagged |-> {colliders[i].event_id : i \in DOMAIN colliders \ {sIdx}},
                  outcome |-> "capture"]
        ELSE [active  |-> RemoveEach(flaggedActiveAll, lostSeq(concurrent_transmissions)),
              flagged |-> {colliders[i].event_id : i \in DOMAIN colliders},
              outcome |-> "collision"]

-----------------------------------------------------------------------------
(* NetworkServer (server.py) *)

\* the number of arguments receive(self, event_id, node_id, gateway_id) takes after self
receive_arity == 3
\* the RSSI the server-side ADR step compares with: -120 dBm
adr_rssi_threshold == -240

\* NetworkServer.__init__: nothing received, ADR off, its own empty lists of
\* nodes and gateways and no channel.  The three references are held by name.
NetworkServer_init ==
    [received_events |-> {}, event_gateway |-> <<>>, packets_received |-> 0,
     adr_enabled |-> FALSE, nodes |-> "NetworkServer.nodes",
     gateways |-> "NetworkServer.gateways", channel |-> "None"]

\* NetworkServer.receive past the duplicate test: the event is recorded and, with
\* adr_enabled, the server-side ADR step runs.  nds is server.nodes (the
\* simulator's node list), gw_ids the ids of server.gateways
receive_new(srv, nds, gw_ids, event_id, node_id, gateway_id, shadow) ==
    LET srv2 == [srv EXCEPT
                   !.received_events = @ \cup {event_id},
                   !.event_gateway = [e \in (DOMAIN @) \cup {event_id} |->
                                        IF e = event_id THEN gateway_id ELSE @[e]],
                   !.packets_received = @ + 1]
        \* node = next((n for n in self.nodes if n.id == node_id), None), the same
        \* for gateway; self.nodes is the simulator's list only if it was set to it
        nodeFound    == srv.nodes = "Simulator.nodes" /\ node_id \in DOMAIN nds
        gatewayFound == srv.gateways = "Simulator.gateways" /\ gateway_id \in gw_ids
        hasChannel   == srv.channel = "Simulator.channel"
    IN  IF srv.adr_enabled /\ nodeFound /\ gatewayFound /\ hasChannel
        THEN LET node == nds[node_id]
                 rssi == compute_rssi(node.tx_power, distance_to(node.pos, gateway_id), shadow)
             IN  [server |-> srv2,
                  nodes  |-> IF rssi > adr_rssi_threshold /\ node.sf > 7
                             THEN [nds EXCEPT ![node_id].sf = @ - 1]
                             ELSE IF rssi < adr_rssi_threshold /\ node.sf < 12
                             THEN [nds EXCEPT ![node_id].sf = @ + 1]
                             ELSE nds]
        ELSE [server |-> srv2, nodes |-> nds]

\* receive without its duplicate test
receive_NoDuplicateTest(srv, nds, gw_ids, event_id, node_id, gateway_id, shadow) ==
    receive_new(srv, nds, gw_ids, event_id, node_id, gateway_id, shadow)

\* NetworkServer.receive(event_id, node_id, gateway_id)
receive(srv, nds, gw_ids, event_id, node_id, gateway_id, shadow) ==
    IF event_id \in srv.received_events
    THEN [server |-> srv, nodes |-> nds]
    ELSE receive_new(srv, nds, gw_ids, event_id, node_id, gateway_id, shadow)

\* A Python call of receive with the positional arguments args (after self):
\* a call whose argument count differs from the signature raises TypeError
\* before the body runs
CallReceive(srv, nds, gw_ids, args, shadow) ==
    IF Len(args) # receive_arity
    THEN [raised |-> TRUE, server |-> srv, nodes |-> nds]
    ELSE [raised |-> FALSE] @@ receive(srv, nds, gw_ids, args[1], args[2], args[3], shadow)

\* an end_reception that notifies the server whether it holds the frame or not
end_reception_AlwaysNotifies(gw_id, active, srv, nds, gw_ids, event_id, node_id, shadow) ==
    LET args == <<event_id, node_id, gw_id, 0>>
        r == CallReceive(srv, nds, gw_ids, args, shadow)
    IN  [active |-> SelectSeq(active, LAMBDA t : t.event_id # event_id),
         server |-> r.server, nodes |-> r.nodes, raised |-> r.raised, call |-> Some(args)]

\* Gateway.end_reception(event_id, network_server, node_id) on gateway gw_id
end_reception(gw_id, active, srv, nds, gw_ids, event_id, node_id, shadow) ==
    LET hits == {i \in DOMAIN active : active[i].event_id = event_id}
    IN  IF hits = {}
        THEN [active |-> active, server |-> srv, nodes |-> nds, raised |-> FALSE, call |-> None]
        ELSE
          LET i == CHOOSE k \in hits : \A j \in hits : k <= j
              t == active[i]
              removed == ListRemove(active, t)
          IN  IF ~t.lost_flag
              THEN LET args == <<event_id, node_id, gw_id, t.rssi>>
                       r == CallReceive(srv, nds, gw_ids, args, shadow)
                   IN  [active |-> removed, server |-> r.server, nodes |-> r.nodes,
                        raised |-> r.raised, call |-> Some(args)]
              ELSE [active |-> removed, server |-> srv, nodes |-> nds,
                    raised |-> FALSE, call |-> None]

-----------------------------------------------------------------------------
(* Simulator (simulator.py): constants and the node-side ADR policy *)

\* Simulator.REQUIRED_SNR in half-dB
REQUIRED_SNR(sf) ==
    CASE sf = 7  -> -15
      [] sf = 8  -> -20
      [] sf = 9  -> -25
      [] sf = 10 -> -30
      [] sf = 11 -> -35
      [] sf = 12 -> -40

MARGIN_DB == 20                  \* 10.0 dB
TX_POWER_INIT == 28              \* 14.0 dBm
TX_POWER_MAX == 28               \* 14.0 dBm
TX_POWER_MIN == 4                \* min_power = 2.0 dBm
TX_POWER_STEP == 6               \* 3.0 dB
HISTORY_LEN == 20
MOBILITY_FIRST == 1250000        \* 10.0 s
MOBILITY_PERIOD == 1250000       \* 10.0 s

\* per > Simulator.PER_THRESHOLD (0.1), per = (total - success) / total
PerAboveThreshold(total_count, success_count) ==
    total_count > 0 /\ 10 * (total_count - success_count) > total_count

\* Energies are Python floats (IEEE 754 binary64).  Every energy that occurs is
\* a multiple of 2^-66 J below 2^6 J, so a float is held exactly as the count
\* of 2^-66 J it stands for, written <<hi, mid, lo>> in base 2^24.
Limb == Pow2(24)
FloatZero == <<0, 0, 0>>

RECURSIVE BitLen(_)
BitLen(x) == IF x = 0 THEN 0 ELSE 1 + BitLen(x \div 2)

\* the number of significant bits of a count
FloatBits(v) ==
    IF v[1] > 0 THEN 2 * 24 + BitLen(v[1])
    ELSE IF v[2] > 0 THEN 24 + BitLen(v[2])
    ELSE BitLen(v[3])

\* the sum of two counts as a real number (no rounding)
ExactAdd(a, b) ==
    LET lo  == a[3] + b[3]
        mid == a[2] + b[2] + (lo \div Limb)
        hi  == a[1] + b[1] + (mid \div Limb)
    IN  <<hi, mid % Limb, lo % Limb>>

\* rounding of a real to the nearest binary64 (53 significant bits), ties to even
float_round(v) ==
    LET drop == FloatBits(v) - 53
    IN  IF drop <= 0 THEN v
        ELSE LET q    == Pow2(drop)
                 r    == v[3] % q
                 down == <<v[1], v[2], v[3] - r>>
                 odd  == (v[3] \div q) % 2 = 1
             IN  IF 2 * r > q \/ (2 * r = q /\ odd)
                 THEN ExactAdd(down, <<0, 0, q>>)
                 ELSE down

\* a + b on Python floats
float_add(a, b) == float_round(ExactAdd(a, b))

\* p_mW = 10 ** (tx_power / 10.0); energy_J = (p_mW / 1000.0) * duration: the
\* float this evaluates to, for the transmit powers 2, 5, 8, 11, 14 dBm and the
\* airtimes of a 20-byte frame
energy_J(tx_power, duration) ==
    CASE tx_power = 4 /\ duration = 5504 -> <<18, 4932260, 13632595>>
      [] tx_power = 4 /\ duration = 9728 -> <<32, 5596141, 11999616>>
      [] tx_power = 4 /\ duration = 16896 -> <<56, 2655523, 10245302>>
      [] tx_power = 4 /\ duration = 33792 -> <<112, 5311047, 3713388>>
      [] tx_power = 4 /\ duration = 67584 -> <<224, 10622094, 7426776>>
      [] tx_power = 4 /\ duration = 114688 -> <<381, 3281758, 5485424>>
      [] tx_power = 10 /\ duration = 5504 -> <<36, 8410421, 2600188>>
      [] tx_power = 10 /\ duration = 9728 -> <<64, 8622245, 6546520>>
      [] tx_power = 10 /\ duration = 16896 -> <<112, 847296, 15785328>>
      [] tx_power = 10 /\ duration = 33792 -> <<224, 1694593, 14793440>>
      [] tx_power = 10 /\ duration = 67584 -> <<448, 3389187, 12809664>>
      [] tx_power = 10 /\ duration = 114688 -> <<760, 9818552, 13603232>>
      [] tx_power = 16 /\ duration = 5504 -> <<72, 13919530, 7376956>>
      [] tx_power = 16 /\ duration = 9728 -> <<128, 12116590, 12258000>>
      [] tx_power = 16 /\ duration = 16896 -> <<223, 9565457, 2746976>>
      [] tx_power = 16 /\ duration = 33792 -> <<447, 2353698, 5493952>>
      [] tx_power = 16 /\ duration = 67584 -> <<894, 4707396, 10987904>>
      [] tx_power = 16 /\ duration = 114688 -> <<1517, 9513510, 15595776>>
      [] tx_power = 22 /\ duration = 5504 -> <<145, 5272966, 10748960>>
      [] tx_power = 22 /\ duration = 9728 -> <<256, 14001675, 12365312>>
      [] tx_power = 22 /\ duration = 16896 -> <<446, 1360404, 6465392>>
      [] tx_power = 22 /\ duration = 33792 -> <<892, 2720808, 12930784>>
      [] tx_power = 22 /\ duration = 67584 -> <<1784, 5441617, 9084352>>
      [] tx_power = 22 /\ duration = 114688 -> <<3027, 15843466, 6264704>>
      [] tx_power = 28 /\ duration = 5504 -> <<289, 15772818, 11504544>>
      [] tx_power = 28 /\ duration = 9728 -> <<512, 7588813, 11359776>>
      [] tx_power = 28 /\ duration = 16896 -> <<890, 818411, 16198080>>
      [] tx_power = 28 /\ duration = 33792 -> <<1780, 1636823, 15618944>>
      [] tx_power = 28 /\ duration = 67584 -> <<3560, 3273647, 14460672>>
      [] tx_power = 28 /\ duration = 114688 -> <<6041, 9114084, 10304256>>

RECURSIVE AdrGoodLinkLoop_SfOnly(_, _, _)
\* a good-link loop that leaves tx_power alone
AdrGoodLinkLoop_SfOnly(steps, sf, tx_power) ==
    IF steps <= 0 \/ sf <= 7 THEN <<sf, tx_power>>
    ELSE AdrGoodLinkLoop_SfOnly(steps - 1, sf - 1, tx_power)

RECURSIVE AdrGoodLinkLoop(_, _, _)
\* the while steps > 0 loop of the good-link branch: the resulting <<sf, tx_power>>
AdrGoodLinkLoop(steps, sf, tx_power) ==
    IF steps <= 0 THEN <<sf, tx_power>>
    ELSE IF sf > 7
         THEN AdrGoodLinkLoop(steps - 1, sf - 1,
                  IF tx_power > TX_POWER_MIN
                  THEN Max(TX_POWER_MIN, tx_power - TX_POWER_STEP) ELSE tx_power)
         ELSE IF tx_power > TX_POWER_MIN
              THEN AdrGoodLinkLoop(steps - 1, sf, Max(TX_POWER_MIN, tx_power - TX_POWER_STEP))
              ELSE <<sf, tx_power>>

\* the bad-link branch without its sf < 12 test
AdrBadLink_NoSfTest(node) == [node EXCEPT !.sf = @ + 1]

\* if per > PER_THRESHOLD: raise sf, or at sf 12 raise tx_power by 3 dB up to 14 dBm
AdrBadLink(node) ==
    IF node.sf < 12 THEN [node EXCEPT !.sf = @ + 1]
    ELSE IF node.tx_power < TX_POWER_MAX
    THEN [node EXCEPT !.tx_power = Min(TX_POWER_MAX, @ + TX_POWER_STEP)]
    ELSE node

\* The ADR block of a transmission-end up to the request test: the node with its
\* history updated, whether per > PER_THRESHOLD, the margin, and whether an
\* ADR request is raised (margin > 0 or per > PER_THRESHOLD)
AdrObserve(node, delivered) ==
    LET snr_value ==
            IF delivered /\ ~IsNone(node.last_rssi)
            THEN Some(Val(node.last_rssi) - sensitivity_dBm(node.sf) + REQUIRED_SNR(node.sf))
            ELSE None
        appended == Append(node.history, [snr |-> snr_value, delivered |-> delivered])
        history  == IF Len(appended) > HISTORY_LEN THEN Tail(appended) ELSE appended
        total_count   == Len(history)
        success_count == Cardinality({i \in DOMAIN history : history[i].delivered})
        perHigh       == PerAboveThreshold(total_count, success_count)
        snr_values    == {Val(history[i].snr) : i \in {j \in DOMAIN history : ~IsNone(history[j].snr)}}
        margin_val    == IF snr_values = {} THEN None
                         ELSE Some(MaxRssi(snr_values) - REQUIRED_SNR(node.sf) - MARGIN_DB)
        marginPos     == ~IsNone(margin_val) /\ Val(margin_val) > 0
    IN  [node |-> [node EXCEPT !.history = history], perHigh |-> perHigh,
         margin_val |-> margin_val, request |-> marginPos \/ perHigh]

\* a request served without clearing the history
history_clear_Skipped(node) == node

\* node.history.clear()
history_clear(node) == [node EXCEPT !.history = <<>>]

\* a request served with the margin looked at before the PER
AdrAdjust_MarginFirst(obs) ==
    LET adjusted ==
            IF ~IsNone(obs.margin_val) /\ Val(obs.margin_val) > 0
            THEN LET r == AdrGoodLinkLoop(Val(obs.margin_val) \div TX_POWER_STEP,
                                          obs.node.sf, obs.node.tx_power)
                 IN  [obs.node EXCEPT !.sf = r[1], !.tx_power = r[2]]
            ELSE AdrBadLink(obs.node)
    IN  history_clear(adjusted)

\* if self.adr_server: the new sf / tx_power of a request, and history.clear()
AdrAdjust(obs) ==
    LET adjusted ==
            IF obs.perHigh
            THEN AdrBadLink(obs.node)
            ELSE LET r == AdrGoodLinkLoop(Val(obs.margin_val) \div TX_POWER_STEP,
                                          obs.node.sf, obs.node.tx_power)
                 IN  [obs.node EXCEPT !.sf = r[1], !.tx_power = r[2]]
    IN  history_clear(adjusted)

\* an ADR block that serves every request, whatever adr_server is
node_adr_ServerFlagIgnored(node, delivered, adr_server) ==
    LET obs == AdrObserve(node, delivered)
    IN  IF obs.request THEN AdrAdjust(obs) ELSE obs.node

\* The ADR block of a transmission-end (if self.adr_node: ...): the node afterwards
node_adr(node, delivered, adr_server) ==
    LET obs == AdrObserve(node, delivered)
    IN  IF obs.request /\ adr_server THEN AdrAdjust(obs) ELSE obs.node

-----------------------------------------------------------------------------
(* Simulator: the event queue *)

NodeIds == 0 .. (cfg.num_nodes - 1)
GwIds   == 0 .. (cfg.num_gateways - 1)

Event(time, priority, event_id, node_id) ==
    [time |-> time, priority |-> priority, event_id |-> event_id, node |-> node_id]

\* Python's order on the tuples (time, priority, event_id, node)
TupleLess(a, b) ==
    \/ a.time < b.time
    \/ a.time = b.time /\ a.priority < b.priority
    \/ a.time = b.time /\ a.priority = b.priority /\ a.event_id < b.event_id

\* a pop under which, at equal time, the larger priority number goes first
heappop_PriorityReversed(queue) ==
    CHOOSE e \in queue : \A f \in queue \ {e} :
        \/ e.time < f.time
        \/ e.time = f.time /\ e.priority > f.priority
        \/ e.time = f.time /\ e.priority = f.priority /\ e.event_id < f.event_id

\* the element heapq.heappop(self.event_queue) returns: the least tuple
heappop(queue) == CHOOSE e \in queue : \A f \in queue \ {e} : TupleLess(e, f)

heappush(queue, e) == queue \cup {e}

\* Simulator.schedule_event(node, time): the queue afterwards (the id is event_id_counter)
schedule_event(queue, ntt, counter, node_id, time) ==
    LET t == IF IsNone(cfg.duty_cycle) THEN time ELSE enforce(ntt, node_id, time)
    IN  heappush(queue, Event(t, 1, counter, node_id))

\* a schedule_mobility that pushes nothing
schedule_mobility_Dropped(queue, counter, node_id, time) == queue

\* Simulator.schedule_mobility(node, time)
schedule_mobility(queue, counter, node_id, time) ==
    heappush(queue, Event(time, 2, counter, node_id))

-----------------------------------------------------------------------------
(* Simulator.__init__ *)

\* Configurations explored: constructor arguments
\* what np.random.exponential(packet_interval) is drawn from
ExponentialDraws == {1000, 1250000}
\* what np.random.rand() * packet_interval is drawn from
UniformDraws(packet_interval) == {0, packet_interval - 2000} \cap Nat
\* what np.random.randint(7, 13) is drawn from
InitSFs(num_nodes) == IF num_nodes = 1 THEN SFs ELSE {7, 12}

Cfg(n, g, mode, interval, cap, adr_node, adr_server, duty, mob) ==
    [num_nodes |-> n, num_gateways |-> g, transmission_mode |-> mode,
     packet_interval |-> interval, packets_to_send |-> cap,
     adr_node |-> adr_node, adr_server |-> adr_server,
     duty_cycle |-> duty, mobility |-> mob]

Configs ==
    { Cfg(1, 1, "Periodic", 1000,    0,                FALSE, FALSE, None,    FALSE),
      Cfg(1, 1, "Periodic", 1000,    0,                TRUE,  TRUE,  Some(2), FALSE),
      Cfg(1, 2, "Random",   1000,    MaxPacketsToSend, TRUE,  FALSE, None,    TRUE),
      Cfg(2, 1, "Periodic", 1250000, MaxPacketsToSend, FALSE, FALSE, None,    TRUE),
      Cfg(2, 1, "Random",   1000,    0,                TRUE,  TRUE,  Some(2), FALSE),
      Cfg(2, 2, "Periodic", 1000,    0,                FALSE, TRUE,  None,    FALSE),
      Cfg(1, 1, "Random",   1000,    MaxPacketsToSend, TRUE,  TRUE,  Some(2), TRUE) }

\* a constructor that leaves the server as NetworkServer() made it
ConfigureServer_Skipped(srv, adr_server) == srv

\* "Configurer le serveur réseau avec les références pour ADR": adr_enabled and
\* the references to the simulator's own nodes, gateways and channel
ConfigureServer(srv, adr_server) ==
    [srv EXCEPT !.adr_enabled = adr_server,
                !.nodes = "Simulator.nodes",
                !.gateways = "Simulator.gateways",
                !.channel = "Simulator.channel"]

IntervalDraws ==
    IF cfg.transmission_mode = "Random" THEN ExponentialDraws ELSE {cfg.packet_interval}

\* np.random.exponential(scale): a scale of 0 gives 0.0
ExponentialDrawsOf(scale) == IF scale = 0 THEN {0} ELSE ExponentialDraws

InitialDelays ==
    IF cfg.transmission_mode = "Random" THEN ExponentialDrawsOf(cfg.packet_interval)
    ELSE UniformDraws(cfg.packet_interval)

NewNode(pos, sf) ==
    [pos |-> pos, sf |-> sf, tx_power |-> TX_POWER_INIT,
     initial_pos |-> pos, initial_sf |-> sf, initial_tx_power |-> TX_POWER_INIT,
     energy_consumed |-> FloatZero, packets_sent |-> 0, packets_success |-> 0,
     packets_collision |-> 0,
     history |-> <<>>, in_transmission |-> FALSE, current_end_time |-> None,
     last_rssi |-> None]

\* the events the constructor schedules: for each node in order, its first
\* transmission and, with mobility, its first move
InitialQueue(t0) ==
    LET k == IF cfg.mobility THEN 2 ELSE 1
    IN  UNION {schedule_event({}, [m \in NodeIds |-> None], k * n, n, t0[n]) : n \in NodeIds}
        \cup (IF cfg.mobility
               THEN {Event(MOBILITY_FIRST, 2, k * n + 1, n) : n \in NodeIds}
               ELSE {})

Init ==
    /\ cfg \in Configs
    /\ nodes \in [NodeIds -> {NewNode(p, sf) : p \in Positions, sf \in InitSFs(cfg.num_nodes)}]
    /\ gateways = [g \in GwIds |-> <<>>]
    /\ server = ConfigureServer(NetworkServer_init, cfg.adr_server)
    /\ \E t0 \in [NodeIds -> InitialDelays] : event_queue = InitialQueue(t0)
    /\ current_time = 0
    /\ event_id_counter = cfg.num_nodes * (IF cfg.mobility THEN 2 ELSE 1)
    /\ stats = [packets_sent |-> 0, packets_delivered |-> 0,
                packets_lost_collision |-> 0, packets_lost_no_signal |-> 0,
                total_energy_J |-> FloatZero, total_delay |-> 0, delivered_count |-> 0]
    /\ events_log = <<>>
    /\ running = TRUE
    /\ next_tx_time = [n \in NodeIds |-> None]
    /\ last = [ret |-> "none", event |-> None, call |-> None, rssi |-> None, value |-> None]
    /\ trace = [started |-> {}, ended |-> <<>>, lost_at |-> {}, reported |-> <<>>,
                frames |-> {}]

-----------------------------------------------------------------------------
(* Simulator(...) called with arbitrary arguments.  Before the call, cfg holds *)
(* what lines 42-54 will store and last.call the arguments as given; the      *)
(* duty_cycle argument is None or a fraction <<numerator, denominator>>.       *)

\* no event kernel: a fresh server, no event, no statistics
NoKernel ==
    /\ server = NetworkServer_init
    /\ event_queue = {}
    /\ stats = [packets_sent |-> 0, packets_delivered |-> 0,
                packets_lost_collision |-> 0, packets_lost_no_signal |-> 0,
                total_energy_J |-> FloatZero, total_delay |-> 0, delivered_count |-> 0]
    /\ events_log = <<>>
    /\ running = FALSE
    /\ next_tx_time = <<>>
    /\ trace = [started |-> {}, ended |-> <<>>, lost_at |-> {}, reported |-> <<>>,
                frames |-> {}]

\* no simulator has been built: no node, no gateway, no kernel
NoSimulator ==
    /\ nodes = <<>>
    /\ gateways = <<>>
    /\ current_time = 0
    /\ event_id_counter = 0
    /\ NoKernel

DutyCycleArgs == {None, Some(<<0, 1>>), Some(<<-1, 2>>), Some(<<1, 2>>),
                  Some(<<1, 1>>), Some(<<3, 2>>)}

ConstructorArgs ==
    [num_nodes : {-1, 0, 1, 2}, num_gateways : {-1, 0, 1},
     transmission_mode : {"Random", "Periodic", "Burst"},
     packet_interval : {-1000, 0, 1000},
     duty_cycle : DutyCycleArgs]

\* "if duty_cycle": None and 0 are false
DutyCycleGiven(duty) == ~IsNone(duty) /\ Val(duty)[1] # 0

\* DutyCycleManager.__init__: if duty_cycle <= 0 or duty_cycle > 1: raise ValueError
DutyCycleManager_init_raises(duty) ==
    Val(duty)[1] <= 0 \/ Val(duty)[1] > Val(duty)[2]

\* the exceptions Simulator.__init__ can end in: the ValueError of
\* DutyCycleManager.__init__, and the ValueError np.random.exponential raises
\* for a negative scale when the first node's t0 is drawn
Simulator_init_raises(args) ==
    \/ DutyCycleGiven(args.duty_cycle) /\ DutyCycleManager_init_raises(args.duty_cycle)
    \/ args.num_nodes >= 1 /\ args.transmission_mode = "Random" /\ args.packet_interval < 0

\* what the constructor stores of its arguments; the other arguments are at
\* their defaults (packets_to_send = 0, no ADR, mobility on)
StoredCfg(args) ==
    Cfg(args.num_nodes, args.num_gateways, args.transmission_mode, args.packet_interval,
        0, FALSE, FALSE,
        IF DutyCycleGiven(args.duty_cycle) /\ ~DutyCycleManager_init_raises(args.duty_cycle)
        THEN Some(Val(args.duty_cycle)[2] \div Val(args.duty_cycle)[1])
        ELSE None,
        TRUE)

InitConstruct ==
    /\ \E args \in ConstructorArgs :
          /\ cfg = StoredCfg(args)
          /\ last = [ret |-> "none", event |-> None, call |-> Some(args),
                     rssi |-> None, value |-> None]
    /\ NoSimulator

\* Simulator.__init__(args): it raises, or it builds the state Init describes
Construct ==
    /\ last.ret = "none" /\ ~IsNone(last.call)
    /\ IF Simulator_init_raises(Val(last.call))
       THEN /\ last' = [last EXCEPT !.ret = "raised"]
            /\ UNCHANGED <<cfg, nodes, gateways, server, event_queue, current_time,
                           event_id_counter, stats, events_log, running, next_tx_time, trace>>
       ELSE /\ nodes' \in [NodeIds -> {NewNode(p, sf) : p \in Positions,
                                                         sf \in InitSFs(cfg.num_nodes)}]
            /\ gateways' = [g \in GwIds |-> <<>>]
            /\ server' = ConfigureServer(NetworkServer_init, cfg.adr_server)
            /\ \E t0 \in [NodeIds -> InitialDelays] : event_queue' = InitialQueue(t0)
            /\ event_id_counter' = Max(cfg.num_nodes, 0) * (IF cfg.mobility THEN 2 ELSE 1)
            /\ running' = TRUE
            /\ next_tx_time' = [n \in NodeIds |-> None]
            /\ last' = [last EXCEPT !.ret = "constructed"]
            /\ UNCHANGED <<cfg, current_time, stats, events_log, trace>>

NextConstruct == Construct

SpecConstruct == InitConstruct /\ [][NextConstruct]_vars

-----------------------------------------------------------------------------
(* Channel.airtime called directly: last.call holds <<sf, payload_size>>.     *)

PayloadSizes == (0 .. MaxPayload) \cup {51, 115, 222, 255}

InitAirtime ==
    /\ cfg = None
    /\ \E sf \in SFs, payload_size \in PayloadSizes :
          last = [ret |-> "none", event |-> None, call |-> Some(<<sf, payload_size>>),
                  rssi |-> None, value |-> None]
    /\ NoSimulator

\* Channel().airtime(sf, payload_size)
CallAirtime ==
    /\ last.ret = "none" /\ ~IsNone(last.call)
    /\ last' = [last EXCEPT !.ret = "airtime",
                            !.value = Some(airtime(Val(last.call)[1], Val(last.call)[2]))]
    /\ UNCHANGED <<cfg, nodes, gateways, server, event_queue, current_time,
                   event_id_counter, stats, events_log, running, next_tx_time, trace>>

NextAirtime == CallAirtime

SpecAirtime == InitAirtime /\ [][NextAirtime]_vars

-----------------------------------------------------------------------------
(* One Gateway (id 0) driven directly: calls of start_reception with frames   *)
(* numbered 0, 1, 2, ... at times that never go back, and one call of         *)
(* end_reception per frame, not before the frame's end_time and in the order  *)
(* of the end times; end_reception is also called for frames the gateway was  *)
(* never handed.  Times are counted in arbitrary units here; a frame whose    *)
(* end_time has passed stays in the list until end_reception removes it.  The *)
(* server is a fresh NetworkServer.                                           *)

GatewaySFs == {7, 8}
\* -100, -95 and -94 dBm: 6 dB, 5 dB and 1 dB apart
GatewayRssis == {-200, -190, -188}
\* a frame lasts two units; the next call comes at the same time, while the
\* last frame is on air, or at its end_time
GatewayDurations == {2}
GatewayAdvances == {0, 1, 2}

InitGateway ==
    /\ cfg = None
    /\ nodes = <<>>
    /\ gateways = [g \in {0} |-> <<>>]
    /\ current_time = 0
    /\ event_id_counter = 0
    /\ last = [ret |-> "none", event |-> None, call |-> None, rssi |-> None, value |-> None]
    /\ NoKernel

\* gw.start_reception(event_id, node_id, sf, rssi, end_time, capture_threshold, now)
GatewayStart ==
    /\ event_id_counter < MaxGatewayCalls
    /\ \E sf \in GatewaySFs, rssi \in GatewayRssis, duration \in GatewayDurations,
          advance \in GatewayAdvances :
          LET event_id == event_id_counter
              node_id  == event_id_counter
              now      == current_time + advance
              end_time == now + duration
              r == start_reception(gateways[0], event_id, node_id, sf, rssi, end_time,
                                   capture_threshold_dB, now)
          IN  /\ gateways' = [gateways EXCEPT ![0] = r.active]
              /\ current_time' = now
              /\ event_id_counter' = event_id_counter + 1
              /\ trace' = [trace EXCEPT !.started = @ \cup {<<0, event_id>>},
                                        !.lost_at = @ \cup {<<0, e>> : e \in r.flagged},
                                        !.frames = @ \cup {[event_id |-> event_id, sf |-> sf,
                                                            end_time |-> end_time, now |-> now,
                                                            outcome |-> r.outcome,
                                                            flagged |-> r.flagged]}]
              /\ last' = [ret |-> "start_reception", event |-> None,
                          call |-> Some([event_id |-> event_id, node_id |-> node_id,
                                         sf |-> sf, rssi |-> rssi, end_time |-> end_time,
                                         now |-> now]),
                          rssi |-> None, value |-> None]
              /\ UNCHANGED <<cfg, nodes, server, event_queue, stats, events_log, running,
                             next_tx_time>>

\* the frames handed to the gateway whose end_reception call is still to come
PendingFrames == {f \in trace.frames : <<0, f.event_id>> \notin SeqToSet(trace.ended)}

\* the end_reception calls come in the order of the frames' end times, as the
\* simulator's event queue makes them
NextToEnd ==
    CHOOSE f \in PendingFrames :
        \A h \in PendingFrames \ {f} :
            f.end_time < h.end_time \/ (f.end_time = h.end_time /\ f.event_id < h.event_id)

\* what a call gw.end_reception(event_id, network_server, node_id) at time at does
EndReceptionCall(event_id, at) ==
    LET r == end_reception(0, gateways[0], server, nodes, {0}, event_id, event_id, 0)
    IN  /\ gateways' = [gateways EXCEPT ![0] = r.active]
        /\ server' = r.server
        /\ nodes' = r.nodes
        /\ current_time' = at
        /\ trace' = [trace EXCEPT !.ended = Append(@, <<0, event_id>>),
                                  !.reported = IF IsNone(r.call) THEN @
                                               ELSE Append(@, <<0, event_id>>)]
        /\ last' = [ret |-> IF r.raised THEN "raised" ELSE "end_reception",
                    event |-> None,
                    call |-> Some([event_id |-> event_id, node_id |-> event_id]),
                    rssi |-> None, value |-> r.call]
        /\ UNCHANGED <<cfg, event_queue, stats, events_log, running, next_tx_time>>

\* gw.end_reception for the frame whose end comes next, not before its end_time
GatewayEnd ==
    /\ PendingFrames # {}
    /\ EndReceptionCall(NextToEnd.event_id, Max(current_time, NextToEnd.end_time))
    /\ UNCHANGED event_id_counter

\* gw.end_reception for a frame of the simulator that never reached this
\* gateway: the sensitivity gate of Simulator.step skipped start_reception
GatewayEndUnheard ==
    /\ event_id_counter < MaxGatewayCalls
    /\ EndReceptionCall(event_id_counter, current_time)
    /\ event_id_counter' = event_id_counter + 1

NextGateway == GatewayStart \/ GatewayEnd \/ GatewayEndUnheard

SpecGateway == InitGateway /\ [][NextGateway]_vars

-----------------------------------------------------------------------------
(* A DutyCycleManager for two nodes driven directly: update_after_tx, enforce *)
(* and can_transmit called in any order, with times in any order.  Times are  *)
(* counted in arbitrary units here.                                           *)

\* duty cycles 1, 1/2 and 1/100
DutyCycles == {1, 2, 100}
DutyTimes == {0, 1, 5, 20}
DutyDurations == {1, 3}

InitDuty ==
    /\ \E inv_duty \in DutyCycles :
          cfg = Cfg(2, 1, "Periodic", 1250000, 0, FALSE, FALSE, Some(inv_duty), FALSE)
    /\ next_tx_time = [n \in {0, 1} |-> None]
    /\ nodes = <<>>
    /\ gateways = <<>>
    /\ server = NetworkServer_init
    /\ event_queue = {}
    /\ current_time = 0
    /\ event_id_counter = 0
    /\ stats = [packets_sent |-> 0, packets_delivered |-> 0, packets_lost_collision |-> 0,
                packets_lost_no_signal |-> 0, total_energy_J |-> FloatZero,
                total_delay |-> 0, delivered_count |-> 0]
    /\ events_log = <<>>
    /\ running = FALSE
    /\ trace = [started |-> {}, ended |-> <<>>, lost_at |-> {}, reported |-> <<>>,
                frames |-> {}]
    /\ last = [ret |-> "none", event |-> None, call |-> None, rssi |-> None, value |-> None]

DutyFrame ==
    UNCHANGED <<cfg, nodes, gateways, server, event_queue, current_time, event_id_counter,
                stats, events_log, running, trace>>

\* manager.update_after_tx(node_id, start_time, duration)
DutyUpdate ==
    /\ \E node_id \in NodeIds, start_time \in DutyTimes, duration \in DutyDurations :
          /\ next_tx_time' = update_after_tx(next_tx_time, Val(cfg.duty_cycle), node_id,
                                             start_time, duration)
          /\ last' = [ret |-> "update_after_tx", event |-> None,
                      call |-> Some([node_id |-> node_id, start_time |-> start_time,
                                     duration |-> duration]),
                      rssi |-> None, value |-> None]
    /\ DutyFrame

\* manager.enforce(node_id, requested_time)
DutyEnforce ==
    /\ \E node_id \in NodeIds, requested_time \in DutyTimes :
          last' = [ret |-> "enforce", event |-> None,
                   call |-> Some([node_id |-> node_id, time |-> requested_time]),
                   rssi |-> None,
                   value |-> Some(enforce(next_tx_time, node_id, requested_time))]
    /\ UNCHANGED next_tx_time
    /\ DutyFrame

\* manager.can_transmit(node_id, time), also at the times enforce returns
DutyCanTransmit ==
    /\ \E node_id \in NodeIds :
       \E time \in DutyTimes \cup {enforce(next_tx_time, node_id, t) : t \in DutyTimes} :
          last' = [ret |-> "can_transmit", event |-> None,
                   call |-> Some([node_id |-> node_id, time |-> time]),
                   rssi |-> None,
                   value |-> Some(can_transmit(next_tx_time, node_id, time))]
    /\ UNCHANGED next_tx_time
    /\ DutyFrame

NextDuty == DutyUpdate \/ DutyEnforce \/ DutyCanTransmit

SpecDuty == InitDuty /\ [][NextDuty]_vars

-----------------------------------------------------------------------------
(* The node-side ADR block of a transmission-end (simulator.py 265-317) on    *)
(* its own: one node of a simulator with adr_node true, and transmission-ends *)
(* that reach the block with their outcome (delivered) and the node's         *)
(* last_rssi given.  The node starts at any sf and tx_power of the grid, with *)
(* a history of failures followed by deliveries.                              *)

\* the RSSI of a delivered frame, by its distance from the sensitivity of the
\* SF: at the sensitivity (margin -10 dB), 12 dB above (margin 2 dB), 19 dB
\* above (margin 9 dB) and 50 dB above (margin 40 dB)
AdrRssiOffsets == {0, 24, 38, 100}
TxPowers == {4, 10, 16, 22, 28}

Failure == [snr |-> None, delivered |-> FALSE]
Delivery(snr) == [snr |-> Some(snr), delivered |-> TRUE]

\* a failures followed by b deliveries at the SNR snr
HistoryOf(a, b, snr) == [i \in 1 .. (a + b) |-> IF i <= a THEN Failure ELSE Delivery(snr)]

\* the histories a node at sf starts with: <<failures, deliveries>> counts and
\* the SNR of a frame received at the sensitivity or 19 dB above it
InitHistories(sf) ==
    {HistoryOf(ab[1], ab[2], off + REQUIRED_SNR(sf)) :
        ab \in {<<0, 0>>, <<1, 0>>, <<19, 0>>, <<20, 0>>, <<0, 9>>, <<1, 9>>,
                <<1, 18>>, <<2, 18>>, <<1, 19>>, <<0, 20>>},
        off \in {0, 38}}

InitAdr ==
    /\ \E adr_server \in BOOLEAN :
          cfg = Cfg(1, 1, "Periodic", 1250000, 0, TRUE, adr_server, None, FALSE)
    /\ \E sf \in SFs, tx_power \in TxPowers :
          \E history \in InitHistories(sf) :
             nodes = [n \in {0} |-> [NewNode(1, sf) EXCEPT !.tx_power = tx_power,
                                                           !.history = history]]
    /\ gateways = <<>>
    /\ current_time = 0
    /\ event_id_counter = 0
    /\ last = [ret |-> "none", event |-> None, call |-> None, rssi |-> None, value |-> None]
    /\ NoKernel

\* if self.adr_node: ... at the end of a transmission of node 0
AdrBlock ==
    /\ event_id_counter < MaxAdrEnds
    /\ \E delivered \in BOOLEAN :
       \E last_rssi \in IF delivered
                        THEN {Some(sensitivity_dBm(nodes[0].sf) + off) : off \in AdrRssiOffsets}
                        ELSE {None, Some(sensitivity_dBm(nodes[0].sf))} :
          /\ nodes' = [nodes EXCEPT ![0] =
                         node_adr([@ EXCEPT !.last_rssi = last_rssi], delivered,
                                  cfg.adr_server)]
          /\ last' = [ret |-> "adr", event |-> None,
                      call |-> Some([delivered |-> delivered, last_rssi |-> last_rssi]),
                      rssi |-> None, value |-> None]
    /\ event_id_counter' = event_id_counter + 1
    /\ UNCHANGED <<cfg, gateways, server, event_queue, current_time, stats, events_log,
                   running, next_tx_time, trace>>

NextAdr == AdrBlock

SpecAdr == InitAdr /\ [][NextAdr]_vars

-----------------------------------------------------------------------------
(* Simulator.step *)

CanStep == running /\ event_queue # {}

\* a gate that lets every signal through
Decodable_Always(rssi, sf) == TRUE

\* the sensitivity gate: not (rssi < self.channel.sensitivity_dBm.get(sf, -inf))
Decodable(rssi, sf) == ~(rssi < sensitivity_dBm(sf))

RECURSIVE RxLoop(_, _, _, _, _, _, _, _)
\* for gw in self.gateways (from gateway g on): the sensitivity gate, best_rssi
\* and gw.start_reception.  acc: gateways, heard_by_any, best_rssi, and the
\* start_reception calls made (started) and the frames they flagged lost (flagged)
RxLoop(g, acc, event_id, node_id, pos, sf, tx_power, rest) ==
    IF g \notin GwIds THEN acc
    ELSE
      LET rssi == compute_rssi(tx_power, distance_to(pos, g), rest.shadow[g])
      IN  IF ~Decodable(rssi, sf)
          THEN RxLoop(g + 1, acc, event_id, node_id, pos, sf, tx_power, rest)
          ELSE
            LET r == start_reception(acc.gateways[g], event_id, node_id, sf, rssi,
                                     rest.end_time, capture_threshold_dB, rest.now)
                acc2 == [gateways     |-> [acc.gateways EXCEPT ![g] = r.active],
                         heard_by_any |-> TRUE,
                         best_rssi    |-> IF IsNone(acc.best_rssi) \/ rssi > Val(acc.best_rssi)
                                          THEN Some(rssi) ELSE acc.best_rssi,
                         started      |-> acc.started \cup {<<g, event_id>>},
                         flagged      |-> acc.flagged \cup {<<g, e>> : e \in r.flagged}]
            IN  RxLoop(g + 1, acc2, event_id, node_id, pos, sf, tx_power, rest)

\* a next transmission counted from the start of the simulation
next_time_FromZero(end_time, next_interval) == next_interval

\* next_time = end_time + next_interval
next_time(end_time, next_interval) == end_time + next_interval

\* an energy account that also returns the node to its initial sf
add_energy_ResetsSf(node, energy_joules) ==
    [node EXCEPT !.energy_consumed = float_add(@, energy_joules), !.sf = node.initial_sf]

\* Node.add_energy(energy_joules): self.energy_consumed += energy_joules
add_energy(node, energy_joules) ==
    [node EXCEPT !.energy_consumed = float_add(@, energy_joules)]

\* a queue left as it is when the packet limit is reached
new_queue_Unfiltered(queue) == queue

\* new_queue: the events of the queue with evt[1] == 0 (the ends of the
\* transmissions on air), heapified
new_queue(queue) == {evt \in queue : evt.priority = 0}

\* priority == 1: start of a transmission
StepStart ==
    /\ CanStep
    /\ stats.packets_sent < MaxSent
    /\ LET ev == heappop(event_queue) IN
       /\ ev.priority = 1
       /\ \E shadow \in [GwIds -> Shadows], next_interval \in IntervalDraws,
             energy \in {energy_J(nodes[ev.node].tx_power,
                                  airtime(nodes[ev.node].sf, payload_size_default))} :
          LET node_id  == ev.node
              node     == nodes[node_id]
              time     == ev.time
              sf       == node.sf
              tx_power == node.tx_power
              duration == airtime(sf, payload_size_default)
              end_time == time + duration
              ntt      == IF IsNone(cfg.duty_cycle) THEN next_tx_time
                          ELSE update_after_tx(next_tx_time, Val(cfg.duty_cycle),
                                               node_id, time, duration)
              sent     == stats.packets_sent + 1
              rx == RxLoop(0, [gateways |-> gateways, heard_by_any |-> FALSE,
                               best_rssi |-> None, started |-> {}, flagged |-> {}],
                           ev.event_id, node_id, node.pos, sf, tx_power,
                           [shadow |-> shadow, end_time |-> end_time, now |-> time])
              q1 == heappush(event_queue \ {ev}, Event(end_time, 0, ev.event_id, node_id))
              more == cfg.packets_to_send = 0 \/ sent < cfg.packets_to_send
          IN  /\ current_time' = time
              /\ next_tx_time' = ntt
              /\ stats' = [stats EXCEPT !.packets_sent = sent,
                                        !.total_energy_J = float_add(@, energy)]
              /\ nodes' = [nodes EXCEPT ![node_id] =
                             [add_energy(node, energy) EXCEPT
                                          !.in_transmission = TRUE,
                                          !.current_end_time = Some(end_time),
                                          !.last_rssi = IF rx.heard_by_any
                                                        THEN rx.best_rssi ELSE None]]
              /\ gateways' = rx.gateways
              /\ IF more
                 THEN /\ event_queue' = schedule_event(q1, ntt, event_id_counter, node_id,
                                                       next_time(end_time, next_interval))
                      /\ event_id_counter' = event_id_counter + 1
                 ELSE /\ event_queue' = new_queue(q1)
                      /\ event_id_counter' = event_id_counter
              /\ events_log' = Append(events_log,
                     [event_id |-> ev.event_id, node_id |-> node_id, sf |-> sf,
                      start_time |-> time, end_time |-> end_time, energy_J |-> energy,
                      heard |-> Some(rx.heard_by_any), result |-> "None",
                      gateway_id |-> None])
              /\ last' = [ret |-> "true", event |-> Some(ev), call |-> None,
                          rssi |-> Some([g \in GwIds |->
                                           compute_rssi(tx_power, distance_to(node.pos, g),
                                                        shadow[g])]),
                          value |-> None]
              /\ trace' = [trace EXCEPT !.started = @ \cup rx.started,
                                        !.lost_at = @ \cup rx.flagged]
              /\ UNCHANGED <<cfg, server, running>>

RECURSIVE EndLoop(_, _, _, _, _)
\* for gw in self.gateways: gw.end_reception(event_id, self.network_server, node_id),
\* from gateway g on; an exception raised by a call ends the loop (and the step).
\* acc: gateways, server, nodes, raised, and the calls made (ended, reported)
EndLoop(g, acc, event_id, node_id, shadow) ==
    IF g \notin GwIds \/ acc.raised THEN acc
    ELSE
      LET r == end_reception(g, acc.gateways[g], acc.server, acc.nodes, GwIds,
                             event_id, node_id, shadow[g])
      IN  EndLoop(g + 1,
                  [gateways |-> [acc.gateways EXCEPT ![g] = r.active],
                   server   |-> r.server,
                   nodes    |-> r.nodes,
                   raised   |-> r.raised,
                   ended    |-> Append(acc.ended, <<g, event_id>>),
                   reported |-> IF IsNone(r.call) THEN acc.reported
                                ELSE Append(acc.reported, <<g, event_id>>)],
                  event_id, node_id, shadow)

\* next(item for item in self.events_log if item['event_id'] == event_id)
LogIndex(log, event_id) ==
    CHOOSE i \in DOMAIN log :
        /\ log[i].event_id = event_id
        /\ \A j \in DOMAIN log : log[j].event_id = event_id => i <= j

\* the shadowing samples a transmission-end can draw: compute_rssi is called by
\* the server-side ADR step only
EndShadowDraws ==
    IF server.adr_enabled THEN [GwIds -> Shadows] ELSE {[g \in GwIds |-> 0]}

\* priority == 0: end of a transmission
StepEnd ==
    /\ CanStep
    /\ LET ev == heappop(event_queue) IN
       /\ ev.priority = 0
       /\ \E shadow \in EndShadowDraws :
          LET node_id  == ev.node
              event_id == ev.event_id
              cleared  == [nodes EXCEPT ![node_id].in_transmission = FALSE,
                                        ![node_id].current_end_time = None]
              done == EndLoop(0, [gateways |-> gateways, server |-> server,
                                  nodes |-> cleared, raised |-> FALSE,
                                  ended |-> <<>>, reported |-> <<>>],
                              event_id, node_id, shadow)
              delivered == event_id \in done.server.received_events
              i     == LogIndex(events_log, event_id)
              entry == events_log[i]
              heard == Val(entry.heard)
          IN  /\ current_time' = ev.time
              /\ event_queue' = event_queue \ {ev}
              /\ gateways' = done.gateways
              /\ server' = done.server
              /\ trace' = [trace EXCEPT !.ended = @ \o done.ended,
                                        !.reported = @ \o done.reported]
              /\ IF done.raised
                 THEN /\ nodes' = done.nodes
                      /\ last' = [ret |-> "raised", event |-> Some(ev), call |-> None,
                                  rssi |-> None, value |-> None]
                      /\ UNCHANGED <<stats, events_log>>
                 ELSE /\ stats' =
                           IF delivered
                           THEN [stats EXCEPT !.packets_delivered = @ + 1,
                                              !.total_delay = @ + (ev.time - entry.start_time),
                                              !.delivered_count = @ + 1]
                           ELSE IF heard
                           THEN [stats EXCEPT !.packets_lost_collision = @ + 1]
                           ELSE [stats EXCEPT !.packets_lost_no_signal = @ + 1]
                      /\ events_log' = [events_log EXCEPT ![i] =
                             [entry EXCEPT
                                !.result = IF delivered THEN "Success"
                                           ELSE IF heard THEN "CollisionLoss"
                                           ELSE "NoCoverage",
                                !.gateway_id = IF delivered
                                               THEN Some(done.server.event_gateway[event_id])
                                               ELSE None]]
                      /\ nodes' = IF cfg.adr_node
                                  THEN [done.nodes EXCEPT ![node_id] =
                                          node_adr(@, delivered, cfg.adr_server)]
                                  ELSE done.nodes
                      /\ last' = [ret |-> "true", event |-> Some(ev), call |-> None,
                             rssi |-> None, value |-> None]
              /\ UNCHANGED <<cfg, event_id_counter, running, next_tx_time>>

\* a move put off to the present instant
next_move_time_Now(node, now) == now

\* next_move_time = node.current_end_time if node.current_end_time is not None
\*                  else self.current_time
next_move_time(node, now) ==
    IF ~IsNone(node.current_end_time) THEN Val(node.current_end_time) ELSE now

\* priority == 2: a mobility event
StepMobility ==
    /\ CanStep
    /\ event_id_counter < MaxEventId
    /\ LET ev == heappop(event_queue) IN
       /\ ev.priority = 2
       /\ LET node_id == ev.node
              node    == nodes[node_id]
              q1      == event_queue \ {ev}
          IN  /\ current_time' = ev.time
              /\ last' = [ret |-> "true", event |-> Some(ev), call |-> None,
                             rssi |-> None, value |-> None]
              /\ IF ~cfg.mobility
                 THEN /\ event_queue' = q1
                      /\ UNCHANGED <<nodes, events_log, event_id_counter>>
                 ELSE IF node.in_transmission
                 THEN /\ event_queue' = schedule_mobility(q1, event_id_counter, node_id,
                                                          next_move_time(node, ev.time))
                      /\ event_id_counter' = event_id_counter + 1
                      /\ UNCHANGED <<nodes, events_log>>
                 ELSE /\ \E p \in Positions : nodes' = [nodes EXCEPT ![node_id].pos = p]
                      /\ events_log' = Append(events_log,
                             [event_id |-> ev.event_id, node_id |-> node_id, sf |-> node.sf,
                              start_time |-> ev.time, end_time |-> ev.time,
                              energy_J |-> FloatZero,
                              heard |-> None, result |-> "Mobility", gateway_id |-> None])
                      /\ IF cfg.packets_to_send = 0
                            \/ stats.packets_sent < cfg.packets_to_send
                         THEN /\ event_queue' = schedule_mobility(q1, event_id_counter, node_id,
                                                                  ev.time + MOBILITY_PERIOD)
                              /\ event_id_counter' = event_id_counter + 1
                         ELSE /\ event_queue' = q1
                              /\ UNCHANGED event_id_counter
              /\ UNCHANGED <<cfg, gateways, server, stats, running, next_tx_time, trace>>

\* step() when not self.running or not self.event_queue: returns False
StepIdle ==
    /\ ~CanStep
    /\ last' = [ret |-> "false", event |-> None, call |-> None, rssi |-> None, value |-> None]
    /\ UNCHANGED <<cfg, nodes, gateways, server, event_queue, current_time,
                   event_id_counter, stats, events_log, running, next_tx_time, trace>>

\* Simulator.stop()
Stop ==
    /\ running
    /\ running' = FALSE
    /\ UNCHANGED <<cfg, nodes, gateways, server, event_queue, current_time,
                   event_id_counter, stats, events_log, next_tx_time, last, trace>>

-----------------------------------------------------------------------------
(* NetworkServer driven directly, as a test or another caller does: calls of  *)
(* receive(event_id, node_id, gateway_id) on the server of a fresh simulator. *)

ServerReceive ==
    \E event_id \in 0 .. MaxServerEventId, node_id \in NodeIds, gateway_id \in GwIds,
       shadow \in Shadows :
       LET r == CallReceive(server, nodes, GwIds, <<event_id, node_id, gateway_id>>, shadow)
       IN  /\ ~r.raised
           /\ server' = r.server
           /\ nodes' = r.nodes
           /\ last' = [ret |-> "receive", event |-> None,
                       call |-> Some(<<event_id, node_id, gateway_id>>),
                       rssi |-> None, value |-> None]
           /\ UNCHANGED <<cfg, gateways, event_queue, current_time, event_id_counter,
                          stats, events_log, running, next_tx_time, trace>>

NextServer == ServerReceive

SpecServer == Init /\ [][NextServer]_vars

-----------------------------------------------------------------------------
Next == StepStart \/ StepEnd \/ StepMobility \/ StepIdle \/ Stop

Spec == Init /\ [][Next]_vars

-----------------------------------------------------------------------------
(* Simulator.run() without max_steps and with nobody calling stop():          *)
(* while self.event_queue and self.running: self.step().  The loop takes the  *)
(* next step as long as there is one to take; an exception raised by step()   *)
(* leaves the loop.                                                           *)

RunStep == last.ret # "raised" /\ (StepStart \/ StepEnd \/ StepMobility)

NextRun == RunStep

\* run() is followed on the simulators built with a packet cap
InitRun == Init /\ cfg.packets_to_send > 0

SpecRun == InitRun /\ [][NextRun]_vars /\ WF_vars(RunStep)

-----------------------------------------------------------------------------
(* Derived notions used by the properties *)

\* the step just taken processed (popped) an event
Processed == ~IsNone(last'.event) /\ Val(last'.event) \in event_queue

EndPending(event_id) ==
    \E e \in event_queue : e.priority = 0 /\ e.event_id = event_id

\* indices of the transmission records of the log (mobility records excluded)
TxRecords == {i \in DOMAIN events_log : events_log[i].result # "Mobility"}
TxRecordsOf(n) == {i \in TxRecords : events_log[i].node_id = n}
\* transmissions whose end event has been processed
EndedTx == {i \in TxRecords : ~EndPending(events_log[i].event_id)}

Count(seq, x) == Cardinality({i \in DOMAIN seq : seq[i] = x})

-----------------------------------------------------------------------------
(* Properties *)

\* C1: every step that processes an event processes the least pending event
\* in the order (time, priority, event_id): at equal time ends (0) go before
\* starts (1) and starts before mobility events (2), then the lower event_id
\* goes first; current_time becomes the event's time and never decreases.
C1_EventOrder ==
    [][Processed =>
         LET e == Val(last'.event)
         IN  /\ \A f \in event_queue \ {e} :
                   \/ e.time < f.time
                   \/ e.time = f.time /\ e.priority < f.priority
                   \/ e.time = f.time /\ e.priority = f.priority /\ e.event_id < f.event_id
             /\ current_time' = e.time
             /\ current_time' >= current_time]_vars

\* an end event was processed while a mobility event of the same instant was pending
C1_Witness ==
    /\ ~IsNone(last.event)
    /\ Val(last.event).priority = 0
    /\ \E f \in event_queue : f.time = Val(last.event).time /\ f.priority = 2

\* C2: delivered + lost_collision + lost_no_signal <= sent, with equality
\* whenever no transmission-end event is pending.
C2_Accounting ==
    LET resolved == stats.packets_delivered + stats.packets_lost_collision
                    + stats.packets_lost_no_signal
    IN  /\ resolved <= stats.packets_sent
        /\ (\A e \in event_queue : e.priority # 0) => resolved = stats.packets_sent

\* C3: every node's sf is in 7..12 and its tx_power in [2, 14] dBm.
C3_SfTxPowerRange ==
    \A n \in NodeIds :
        /\ nodes[n].sf \in 7..12
        /\ nodes[n].tx_power >= TX_POWER_MIN
        /\ nodes[n].tx_power <= TX_POWER_MAX

\* an ADR request was served at the end of a lost transmission sent at sf 12
\* (the upper clamp)
C3_Witness ==
    /\ cfg.adr_node /\ cfg.adr_server
    /\ ~IsNone(last.event) /\ last.ret = "true"
    /\ Val(last.event).priority = 0
    /\ LET n == Val(last.event).node
           i == LogIndex(events_log, Val(last.event).event_id)
       IN  /\ events_log[i].sf = 12
           /\ events_log[i].result \in {"CollisionLoss", "NoCoverage"}
           /\ nodes[n].sf = 12
           /\ nodes[n].history = <<>>

\* C4: a gateway never reports to the server a frame that lost a collision at
\* that gateway (whose lost_flag was ever set there).
C4_LostNeverReported ==
    \A i \in DOMAIN trace.reported : trace.reported[i] \notin trace.lost_at

\* at one gateway a frame lost a collision and its end event was processed, and
\* another frame was reported
C4_Witness ==
    \E g \in GwIds : \E i, j \in DOMAIN trace.ended :
        /\ trace.ended[i][1] = g /\ trace.ended[i] \in trace.lost_at
        /\ trace.ended[j] \in SeqToSet(trace.reported) /\ trace.ended[j][1] = g

\* C5: every start_reception(event_id) on a gateway is followed by exactly one
\* end_reception(event_id) on that gateway, made when the matching end event
\* is processed: none while the end event is pending, one once it is not.
C5_EndReceptionPaired ==
    \A p \in trace.started :
        IF EndPending(p[2]) THEN Count(trace.ended, p) = 0
        ELSE Count(trace.ended, p) = 1

LatestTx(n) == CHOOSE i \in TxRecordsOf(n) : \A j \in TxRecordsOf(n) : j <= i

\* C8: two nodes start at the same time on the same SF, both heard by the
\* single gateway: with RSSI less than 6 dB apart both end as CollisionLoss;
\* with one at least 6 dB stronger that one ends as Success and the other as
\* CollisionLoss.  (Read when both have ended; last_rssi is the RSSI heard.)
C8_TwoNodeCapture ==
    (cfg.num_gateways = 1 /\ cfg.num_nodes = 2
       /\ TxRecordsOf(0) # {} /\ TxRecordsOf(1) # {}) =>
      \A a, b \in NodeIds :
        LET ra == events_log[LatestTx(a)]
            rb == events_log[LatestTx(b)]
        IN  (/\ a # b
             /\ ra.start_time = rb.start_time /\ ra.sf = rb.sf
             /\ ra.heard = Some(TRUE) /\ rb.heard = Some(TRUE)
             /\ ~EndPending(ra.event_id) /\ ~EndPending(rb.event_id)) =>
            LET da == Val(nodes[a].last_rssi)
                db == Val(nodes[b].last_rssi)
            IN  /\ (da - db < capture_threshold_dB /\ db - da < capture_threshold_dB)
                     => (ra.result = "CollisionLoss" /\ rb.result = "CollisionLoss")
                /\ (da - db >= capture_threshold_dB)
                     => (ra.result = "Success" /\ rb.result = "CollisionLoss")

\* C9: one node, one gateway, ADR off: every ended transmission that the
\* gateway heard is delivered (result Success), packets_delivered counts them
\* and nothing is counted lost.
C9_SingleNodeDelivered ==
    (/\ cfg.num_nodes = 1 /\ cfg.num_gateways = 1
     /\ ~cfg.adr_node /\ ~cfg.adr_server
     /\ \A i \in TxRecords : events_log[i].heard = Some(TRUE)) =>
        /\ \A i \in EndedTx : events_log[i].result = "Success"
        /\ stats.packets_delivered = Cardinality(EndedTx)
        /\ stats.packets_lost_collision = 0
        /\ stats.packets_lost_no_signal = 0

\* C10: no call of step() ends in a raised exception.
C10_NoException == last.ret # "raised"

\* the energy_consumed of the nodes 0 .. n added up as floats, in node order
RECURSIVE NodeEnergySum(_)
NodeEnergySum(n) ==
    IF n < 0 THEN FloatZero
    ELSE float_add(NodeEnergySum(n - 1), nodes[n].energy_consumed)

\* C14: total_energy_J equals the sum over all nodes of energy_consumed.
C14_EnergyConsistent ==
    stats.total_energy_J = NodeEnergySum(cfg.num_nodes - 1)

\* the energy_J of the first k log records of node n added up as floats
RECURSIVE LogEnergySum(_, _)
LogEnergySum(n, k) ==
    IF k = 0 THEN FloatZero
    ELSE IF events_log[k].node_id = n /\ events_log[k].result # "Mobility"
    THEN float_add(LogEnergySum(n, k - 1), events_log[k].energy_J)
    ELSE LogEnergySum(n, k - 1)

\* C15: re-aggregating the log by node_id gives each node's own counters:
\* the number of its transmission records is node.packets_sent, the number of
\* them with result Success is node.packets_success, and the sum of their
\* energy_J is node.energy_consumed.
C15_LogReaggregates ==
    \A n \in NodeIds :
        /\ Cardinality(TxRecordsOf(n)) = nodes[n].packets_sent
        /\ Cardinality({i \in TxRecordsOf(n) : events_log[i].result = "Success"})
              = nodes[n].packets_success
        /\ LogEnergySum(n, Len(events_log)) = nodes[n].energy_consumed

\* C16: after construction network_server.adr_enabled is the adr_server
\* argument and the server's nodes, gateways and channel are the simulator's
\* own, so that the server-side ADR step changes the simulated node: a first
\* arrival with ADR enabled moves the sf of a node that is not at a bound.
C16_ServerConfigured ==
    /\ [](/\ server.adr_enabled = cfg.adr_server
          /\ server.nodes = "Simulator.nodes"
          /\ server.gateways = "Simulator.gateways"
          /\ server.channel = "Simulator.channel")
    /\ [][(/\ last'.ret = "receive" /\ ~IsNone(last'.call)
           /\ Val(last'.call)[1] \notin server.received_events
           /\ cfg.adr_server
           /\ nodes[Val(last'.call)[2]].sf \in 8..11)
          => nodes'[Val(last'.call)[2]].sf # nodes[Val(last'.call)[2]].sf]_vars

\* the server of a simulator built with adr_server = True has moved a node's sf
C16_Witness ==
    /\ last.ret = "receive"
    /\ server.adr_enabled /\ cfg.adr_server
    /\ \E n \in NodeIds : nodes[n].sf # nodes[n].initial_sf

\* the step just taken was the start (priority 1) or the end (priority 0) of a
\* transmission
StartProcessed == Processed /\ Val(last'.event).priority = 1
EndProcessed   == Processed /\ Val(last'.event).priority = 0

\* the transmission records whose frame no gateway heard
Unheard == {i \in TxRecords : events_log[i].heard = Some(FALSE)}

\* C17: a transmission whose RSSI is below the sensitivity of its SF at every
\* gateway is passed to no gateway's start_reception (the active lists do not
\* change), is never delivered, and at its end event is classified NoCoverage
\* and counted in packets_lost_no_signal only; if every transmission is such,
\* packets_lost_no_signal = packets_sent once all have ended.
C17_NoCoverage ==
    /\ [][StartProcessed =>
            LET e     == Val(last'.event)
                below == \A g \in GwIds :
                            Val(last'.rssi)[g] < sensitivity_dBm(nodes[e.node].sf)
                rec   == events_log'[Len(events_log')]
            IN  /\ rec.event_id = e.event_id
                /\ rec.heard = Some(~below)
                /\ below => /\ gateways' = gateways
                            /\ trace'.started = trace.started]_vars
    /\ [](\A i \in Unheard :
            /\ events_log[i].event_id \notin server.received_events
            /\ \A g \in GwIds : <<g, events_log[i].event_id>> \notin trace.started
            /\ events_log[i].result # "Success"
            /\ ~EndPending(events_log[i].event_id) => events_log[i].result = "NoCoverage")
    /\ [][(EndProcessed /\ \E i \in Unheard :
                               events_log[i].event_id = Val(last'.event).event_id) =>
            /\ last'.ret = "true"
            /\ stats' = [stats EXCEPT !.packets_lost_no_signal = @ + 1]]_vars
    /\ []((Unheard = TxRecords /\ \A i \in TxRecords : ~EndPending(events_log[i].event_id))
            => stats.packets_lost_no_signal = stats.packets_sent)

\* three transmissions were made, none was heard, all have ended
C17_Witness ==
    /\ stats.packets_sent = 3
    /\ Unheard = TxRecords
    /\ \A i \in TxRecords : events_log[i].result = "NoCoverage"
    /\ stats.packets_lost_no_signal = 3 /\ stats.packets_lost_collision = 0

\* C18: with adr_server false no node's sf or tx_power ever changes: they
\* stay at initial_sf and initial_tx_power, also with adr_node true and ADR
\* requests being raised.
C18_NoAdrWithoutServer ==
    ~cfg.adr_server =>
        \A n \in NodeIds : /\ nodes[n].sf = nodes[n].initial_sf
                           /\ nodes[n].tx_power = nodes[n].initial_tx_power

\* with adr_node true and adr_server false, a transmission-end raised an ADR
\* request (the history it left has per > PER_THRESHOLD) and was ignored
C18_Witness ==
    /\ cfg.adr_node /\ ~cfg.adr_server
    /\ ~IsNone(last.event) /\ Val(last.event).priority = 0 /\ last.ret = "true"
    /\ LET h == nodes[Val(last.event).node].history
       IN  /\ Len(h) >= 2
           /\ PerAboveThreshold(Len(h), Cardinality({i \in DOMAIN h : h[i].delivered}))

\* the packet cap is set and reached
CapReached == cfg.packets_to_send > 0 /\ stats.packets_sent >= cfg.packets_to_send

\* C12 (first part): in the start step in which packets_sent reaches the cap
\* the queue becomes the pending end events plus the end event just scheduled;
\* from then on the queue holds end events only, nothing is added to it and
\* only end events are processed.
C12_Purge ==
    /\ [][(StartProcessed /\ cfg.packets_to_send > 0
             /\ stats'.packets_sent = cfg.packets_to_send) =>
            LET e == Val(last'.event)
            IN  event_queue' =
                    {f \in event_queue \ {e} : f.priority = 0}
                    \cup {Event(Val(nodes'[e.node].current_end_time), 0, e.event_id, e.node)}]_vars
    /\ [](CapReached => \A f \in event_queue : f.priority = 0)
    /\ [][CapReached => /\ event_queue' \subseteq event_queue
                        /\ event_id_counter' = event_id_counter
                        /\ Processed => Val(last'.event).priority = 0]_vars

\* C12: with a packet cap, the start step that reaches it purges every pending
\* start and mobility event and keeps every end event; afterwards only end
\* events are processed, none is scheduled, and every kept end event is
\* eventually processed (the queue drains).
C12_CapPurgeDrain ==
    /\ C12_Purge
    /\ (CapReached ~> event_queue = {})

\* the step() just called (an idle call repeated changes nothing at all)
StepCalled == last' # last

\* C13: step() returns false and changes nothing exactly when running is
\* false or the queue is empty; otherwise it processes exactly one event and
\* returns true.  Once stopped, the simulator stays stopped and no event is
\* processed any more.
C13_StepFrame ==
    /\ [][StepCalled =>
            IF ~CanStep
            THEN /\ last'.ret = "false"
                 /\ UNCHANGED <<cfg, nodes, gateways, server, event_queue, current_time,
                                event_id_counter, stats, events_log, running,
                                next_tx_time, trace>>
            ELSE /\ last'.ret = "true"
                 /\ Processed
                 /\ Val(last'.event) \notin event_queue'
                 /\ current_time' = Val(last'.event).time]_vars
    /\ [][~running => /\ ~running'
                      /\ UNCHANGED <<nodes, gateways, server, event_queue, current_time,
                                     event_id_counter, stats, events_log>>]_vars

\* the arguments the constructor is meant to accept
ValidArgs(args) ==
    /\ IsNone(args.duty_cycle)
          \/ (0 < Val(args.duty_cycle)[1] /\ Val(args.duty_cycle)[1] <= Val(args.duty_cycle)[2])
    /\ args.num_nodes > 0
    /\ args.num_gateways > 0
    /\ args.packet_interval > 0
    /\ args.transmission_mode \in {"Random", "Periodic"}

\* C11: constructing a Simulator fails, and yields no simulator with scheduled
\* events, whenever duty_cycle is given outside (0, 1], num_nodes or
\* num_gateways is not positive, packet_interval <= 0, or transmission_mode is
\* neither Random nor Periodic.
C11_ConstructorRejects ==
    (last.ret \in {"constructed", "raised"} /\ ~ValidArgs(Val(last.call))) =>
        /\ last.ret = "raised"
        /\ event_queue = {}

\* C19: for a fixed payload, airtime does not decrease when sf grows by one,
\* for every sf in 7..11 (the low-data-rate switch at sf = 11 included).
C19_AirtimeMonotone ==
    (last.ret = "airtime" /\ Val(last.call)[1] <= 11) =>
        airtime(Val(last.call)[1] + 1, Val(last.call)[2]) >= Val(last.value)

\* the default 20-byte frame at sf 10, just below the low-data-rate switch
C19_Witness ==
    /\ last.ret = "airtime"
    /\ Val(last.call) = <<10, payload_size_default>>
    /\ Val(last.value) = 33 * Pow2(10)
    /\ airtime(11, payload_size_default) = 33 * Pow2(11)

\* C20: start_reception for a frame on SF s only reads and changes entries of
\* SF s whose end_time is later than now: the other entries stay in the list,
\* in order and unchanged, no frame of another SF is flagged lost, and when no
\* entry of SF s is still on air the new frame is appended with lost_flag
\* false and nothing else changes.
C20_SameSfOnly ==
    [][(last'.ret = "start_reception" /\ last' # last) =>
         LET a        == Val(last'.call)
             old      == gateways[0]
             new      == gateways'[0]
             Other(t) == t.sf # a.sf \/ t.end_time <= a.now
             sameSf   == SelectSeq(old, LAMBDA t : ~Other(t))
             newFlags == trace'.lost_at \ trace.lost_at
         IN  /\ SelectSeq(new, Other) = SelectSeq(old, Other)
             /\ \A f \in newFlags :
                   \/ f[2] = a.event_id
                   \/ \E i \in DOMAIN sameSf : sameSf[i].event_id = f[2]
             /\ sameSf = <<>> =>
                   /\ new = Append(old, [event_id |-> a.event_id, node_id |-> a.node_id,
                                         sf |-> a.sf, rssi |-> a.rssi,
                                         end_time |-> a.end_time, lost_flag |-> FALSE])
                   /\ newFlags = {}]_vars

\* a frame collided with a frame of its SF and was lost with it while a frame
\* of the other SF, still on air, stayed in the list
C20_Witness ==
    /\ last.ret = "start_reception"
    /\ <<0, Val(last.call).event_id>> \in trace.lost_at
    /\ \E i \in DOMAIN gateways[0] :
          /\ gateways[0][i].sf # Val(last.call).sf
          /\ gateways[0][i].end_time > Val(last.call).now
          /\ ~gateways[0][i].lost_flag
    /\ \A i \in DOMAIN gateways[0] : gateways[0][i].sf # Val(last.call).sf

\* the frames a start_reception call for the frame a finds concurrent in the
\* list active, and the frame it builds
ConcurrentWith(active, a) == SelectSeq(active, LAMBDA t : t.sf = a.sf /\ t.end_time > a.now)
NewFrame(a) ==
    [event_id |-> a.event_id, node_id |-> a.node_id, sf |-> a.sf, rssi |-> a.rssi,
     end_time |-> a.end_time, lost_flag |-> FALSE]

StartCalled == last'.ret = "start_reception" /\ last' # last

\* C21: when start_reception finds a non-empty set C of concurrent same-SF
\* entries, with A = C plus the new frame and s1 >= s2 the two highest RSSI of
\* A: if s1 - s2 >= capture_threshold the only frame of A in the list
\* afterwards is the strongest one, with lost_flag false; otherwise no frame
\* of A is in the list afterwards.
C21_CaptureOrTotalLoss ==
    [][(StartCalled /\ ConcurrentWith(gateways[0], Val(last'.call)) # <<>>) =>
         LET a       == Val(last'.call)
             A       == Append(ConcurrentWith(gateways[0], a), NewFrame(a))
             ids     == {A[i].event_id : i \in DOMAIN A}
             i1      == CHOOSE i \in DOMAIN A : \A j \in DOMAIN A : A[i].rssi >= A[j].rssi
             s1      == A[i1].rssi
             s2      == MaxRssi({A[j].rssi : j \in DOMAIN A \ {i1}})
             present == SelectSeq(gateways'[0], LAMBDA t : t.event_id \in ids)
         IN  IF s1 - s2 >= capture_threshold_dB
             THEN present = <<[A[i1] EXCEPT !.lost_flag = FALSE]>>
             ELSE present = <<>>]_vars

\* a collision with capture that the frame already in the list won: it is
\* still there, not flagged, and the new frame is not
C21_Witness ==
    /\ last.ret = "start_reception"
    /\ <<0, Val(last.call).event_id>> \in trace.lost_at
    /\ \A i \in DOMAIN gateways[0] : gateways[0][i].event_id # Val(last.call).event_id
    /\ \E i \in DOMAIN gateways[0] :
          /\ gateways[0][i].sf = Val(last.call).sf
          /\ gateways[0][i].end_time > Val(last.call).now
          /\ gateways[0][i].rssi - Val(last.call).rssi >= capture_threshold_dB
          /\ ~gateways[0][i].lost_flag

\* the call for the frame a comes after a collision without capture on its SF
\* (the latest call on that SF, among the calls of frames, took the collision
\* branch) and before the end of every frame that collision flagged
AfterCollision(a, frames) ==
    LET prev == {f \in frames : f.sf = a.sf}
    IN  /\ prev # {}
        /\ LET latest == CHOOSE f \in prev : \A h \in prev : h.event_id <= f.event_id
           IN  /\ latest.outcome = "collision"
               /\ \A f \in frames : f.event_id \in latest.flagged => f.end_time > a.now

EndCalled == last'.ret \in {"end_reception", "raised"} /\ last' # last

\* a third frame after a collision without capture, taken alone, with no frame
\* of its SF after it
ThirdFrames ==
    {f \in trace.frames :
        /\ f.outcome = "clear"
        /\ AfterCollision(f, {h \in trace.frames : h.event_id < f.event_id})
        /\ \A h \in trace.frames : h.sf = f.sf => h.event_id <= f.event_id}

C22_StartPart ==
    (StartCalled /\ AfterCollision(Val(last'.call), trace.frames)) =>
        /\ ConcurrentWith(gateways[0], Val(last'.call)) = <<>>
        /\ gateways'[0] = Append(gateways[0], NewFrame(Val(last'.call)))
        /\ trace'.lost_at = trace.lost_at

C22_EndPart ==
    (EndCalled /\ \E f \in ThirdFrames : f.event_id = Val(last'.call).event_id) =>
        /\ last'.ret = "end_reception"
        /\ Val(last'.call).event_id \in server'.received_events

\* C22: after a collision without capture on some SF the gateway is idle on
\* that SF although the collided frames are still on air: a third frame of the
\* SF that starts before their end times finds no concurrent entry, is
\* appended with lost_flag false and flags nothing, and at its end, no further
\* frame having arrived, it is reported to the server, which records it.
C22_IdleAfterCollision == [][C22_StartPart /\ C22_EndPart]_vars

\* C23: end_reception for an event the gateway holds no entry of changes
\* neither the gateway's list nor the server and does not call the server;
\* when the gateway holds an entry of the event the entry is removed, and the
\* server is called iff the entry's lost_flag is false.
C23_EndReceptionFrame ==
    [][EndCalled =>
         LET e    == Val(last'.call).event_id
             hits == SelectSeq(gateways[0], LAMBDA t : t.event_id = e)
             called == trace'.reported # trace.reported
         IN  IF hits = <<>>
             THEN /\ gateways' = gateways
                  /\ server' = server
                  /\ nodes' = nodes
                  /\ ~called /\ IsNone(last'.value)
                  /\ last'.ret = "end_reception"
             ELSE /\ gateways'[0] = SelectSeq(gateways[0], LAMBDA t : t.event_id # e)
                  /\ called <=> ~hits[1].lost_flag
                  /\ called => trace'.reported = Append(trace.reported, <<0, e>>)]_vars

\* end_reception has just returned for a frame a collision had discarded,
\* after an earlier end_reception found its frame and called the server, and
\* another one was called for a frame the gateway never heard
C23_Witness ==
    /\ last.ret = "end_reception"
    /\ <<0, Val(last.call).event_id>> \in trace.lost_at
    /\ trace.reported # <<>>
    /\ \E i \in DOMAIN trace.ended : trace.ended[i] \notin trace.started

\* the gateways that hold the frame of event_id, not flagged lost
Holders(event_id) ==
    {g \in GwIds : \E i \in DOMAIN gateways[g] :
        gateways[g][i].event_id = event_id /\ ~gateways[g][i].lost_flag}

\* the RSSI gateway g recorded for the frame of event_id at its reception start
RecordedRssi(g, event_id) ==
    LET i == CHOOSE k \in DOMAIN gateways[g] : gateways[g][k].event_id = event_id
    IN  gateways[g][i].rssi

\* C24: on the first arrival of an event at the server with adr_enabled true
\* (node-side ADR off), the node's sf follows the RSSI the delivering gateway
\* recorded for the frame: one less if that RSSI > -120 dBm and sf > 7, else
\* one more if that RSSI < -120 dBm and sf < 12, else unchanged; tx_power is
\* not changed.
C24_ServerAdrByGatewayRssi ==
    [][(EndProcessed /\ server.adr_enabled /\ ~cfg.adr_node
          /\ Holders(Val(last'.event).event_id) # {}
          /\ Val(last'.event).event_id \notin server.received_events) =>
         LET ev   == Val(last'.event)
             g    == CHOOSE h \in Holders(ev.event_id) :
                         \A k \in Holders(ev.event_id) : h <= k
             rssi == RecordedRssi(g, ev.event_id)
             node == nodes[ev.node]
         IN  /\ nodes'[ev.node].sf =
                    IF rssi > adr_rssi_threshold /\ node.sf > 7 THEN node.sf - 1
                    ELSE IF rssi < adr_rssi_threshold /\ node.sf < 12 THEN node.sf + 1
                    ELSE node.sf
             /\ nodes'[ev.node].tx_power = node.tx_power]_vars

\* the pending transmission-end and transmission-start events of node n
PendingEnds(n)   == {e \in event_queue : e.priority = 0 /\ e.node = n}
PendingStarts(n) == {e \in event_queue : e.priority = 1 /\ e.node = n}

C25_BetweenSteps ==
    \A n \in NodeIds :
        /\ Cardinality(PendingEnds(n)) <= 1
        /\ nodes[n].in_transmission <=> PendingEnds(n) # {}
        /\ nodes[n].in_transmission =>
              /\ ~IsNone(nodes[n].current_end_time)
              /\ \A e \in PendingEnds(n) : e.time = Val(nodes[n].current_end_time)
              /\ \A e \in PendingStarts(n) : e.time >= Val(nodes[n].current_end_time)

\* C25: each node goes Idle -> Transmitting -> Idle without overlap: a
\* transmission-start of a node is processed only when its in_transmission is
\* false; between steps in_transmission is true exactly when one
\* transmission-end event of the node is pending, and current_end_time is then
\* that event's time; the node's next start is never earlier than the end of
\* its current transmission.
C25_NodeStateMachine ==
    /\ []C25_BetweenSteps
    /\ [][StartProcessed => ~nodes[Val(last'.event).node].in_transmission]_vars

\* a node is in its second transmission, its next start already scheduled
C25_Witness ==
    \E n \in NodeIds :
        /\ nodes[n].in_transmission
        /\ PendingStarts(n) # {}
        /\ \E i \in TxRecordsOf(n) : ~EndPending(events_log[i].event_id)

MobilityProcessed == Processed /\ Val(last'.event).priority = 2

\* C26: a node's position never changes between its transmission-start and
\* the matching transmission-end: a mobility event that fires while the node
\* is transmitting leaves the nodes and the log as they are and is scheduled
\* again at the node's current_end_time, behind the pending end event of that
\* instant in the queue's order.
C26_NoMoveOnAir ==
    [][/\ \A n \in NodeIds : nodes[n].in_transmission => nodes'[n].pos = nodes[n].pos
       /\ (MobilityProcessed /\ cfg.mobility
              /\ nodes[Val(last'.event).node].in_transmission) =>
            LET ev   == Val(last'.event)
                node == nodes[ev.node]
                again == Event(Val(node.current_end_time), 2, event_id_counter, ev.node)
            IN  /\ nodes' = nodes
                /\ events_log' = events_log
                /\ event_queue' = (event_queue \ {ev}) \cup {again}
                /\ \E e \in PendingEnds(ev.node) :
                      e.time = again.time /\ TupleLess(e, again) /\ e \in event_queue']_vars

\* a move that had been put off has been made at the instant its node's
\* transmission ended
C26_Witness ==
    /\ last.ret = "true" /\ ~IsNone(last.event) /\ Val(last.event).priority = 2
    /\ \E i, j \in DOMAIN events_log :
          /\ j = Len(events_log)
          /\ events_log[j].result = "Mobility"
          /\ events_log[j].event_id = Val(last.event).event_id
          /\ events_log[i].result # "Mobility"
          /\ events_log[i].node_id = events_log[j].node_id
          /\ events_log[i].end_time = events_log[j].start_time

\* the history list after one more entry: append, then pop(0) past 20 entries
RingAppend(history, entry) ==
    IF Len(history) + 1 > 20
    THEN SubSeq(history, 2, Len(history)) \o <<entry>>
    ELSE history \o <<entry>>

C27_Appended ==
    (EndProcessed /\ cfg.adr_node) =>
        LET ev    == Val(last'.event)
            h     == nodes[ev.node].history
            h2    == nodes'[ev.node].history
            delivered == ev.event_id \in server'.received_events
        IN  \/ /\ h2 # <<>>
               /\ h2 = RingAppend(h, h2[Len(h2)])
               /\ h2[Len(h2)].delivered = delivered
               /\ ~delivered => IsNone(h2[Len(h2)].snr)
            \* the request that follows the append may have cleared the history
            \/ cfg.adr_server /\ h2 = <<>>

\* C27: with node-side ADR enabled every transmission-end appends exactly one
\* entry {snr, delivered} to the node's history, snr absent when the
\* transmission was not delivered; the history never holds more than 20
\* entries, the oldest being dropped on overflow.
C27_HistoryRing ==
    /\ [](\A n \in NodeIds : Len(nodes[n].history) <= 20)
    /\ [][C27_Appended]_vars

AdrCalled == last'.ret = "adr" /\ event_id_counter' # event_id_counter

\* what the block computes at a transmission-end, restated from the history
\* before the end: the entry appended, the history the rates are taken over,
\* PER > 0.1, and the margin (<<>> when no entry carries an SNR)
AdrEntry(node, call) ==
    [snr |-> IF call.delivered /\ ~IsNone(call.last_rssi)
             THEN Some(Val(call.last_rssi) - sensitivity_dBm(node.sf) + REQUIRED_SNR(node.sf))
             ELSE None,
     delivered |-> call.delivered]
AdrWindow(node, call) == RingAppend(node.history, AdrEntry(node, call))
AdrPerHigh(node, call) ==
    LET w == AdrWindow(node, call)
        failures == Cardinality({i \in DOMAIN w : ~w[i].delivered})
    IN  10 * failures > Len(w)
AdrMargin(node, call) ==
    LET w == AdrWindow(node, call)
        snrs == {Val(w[i].snr) : i \in {j \in DOMAIN w : ~IsNone(w[j].snr)}}
    IN  IF snrs = {} THEN None
        ELSE Some(MaxRssi(snrs) - REQUIRED_SNR(node.sf) - MARGIN_DB)
AdrMarginPositive(node, call) ==
    ~IsNone(AdrMargin(node, call)) /\ Val(AdrMargin(node, call)) > 0

\* C28: with adr_node and adr_server, when PER > 0.1 at a transmission-end the
\* bad-link branch is taken even if the margin is positive too: sf goes up by
\* exactly one if sf < 12; otherwise tx_power becomes min(14, tx_power + 3) if
\* tx_power < 14; otherwise nothing changes.
C28_BadLink ==
    [][(AdrCalled /\ cfg.adr_server /\ AdrPerHigh(nodes[0], Val(last'.call))) =>
         LET node == nodes[0]
         IN  /\ nodes'[0].sf = IF node.sf < 12 THEN node.sf + 1 ELSE node.sf
             /\ nodes'[0].tx_power =
                    IF node.sf < 12 THEN node.tx_power
                    ELSE IF node.tx_power < 28 THEN Min(28, node.tx_power + 6)
                    ELSE node.tx_power]_vars

\* a delivery with a positive margin ended with PER > 0.1 all the same, and
\* the node went one SF up
C28_Witness ==
    /\ last.ret = "adr"
    /\ cfg.adr_server
    /\ Val(last.call).delivered
    /\ nodes[0].sf > nodes[0].initial_sf
    /\ Val(Val(last.call).last_rssi) - sensitivity_dBm(nodes[0].sf - 1) > MARGIN_DB
    /\ nodes[0].history = <<>>

\* C29: with adr_node and adr_server, when PER <= 0.1 and margin > 0 at a
\* transmission-end, the good-link loop makes at most floor(margin / 3)
\* iterations, each lowering sf by one while sf > 7 and tx_power by 3 dB while
\* tx_power > 2 dBm: sf ends at max(7, sf - steps) and tx_power at
\* max(2, tx_power - 3 * steps), neither higher than before.
C29_GoodLink ==
    [][(AdrCalled /\ cfg.adr_server /\ ~AdrPerHigh(nodes[0], Val(last'.call))
          /\ AdrMarginPositive(nodes[0], Val(last'.call))) =>
         LET node  == nodes[0]
             steps == Val(AdrMargin(node, Val(last'.call))) \div 6
         IN  /\ nodes'[0].sf = Max(7, node.sf - steps)
             /\ nodes'[0].tx_power = Max(4, node.tx_power - 6 * steps)
             /\ nodes'[0].sf <= node.sf
             /\ nodes'[0].tx_power <= node.tx_power]_vars

\* a good-link adjustment that stopped at sf 7 and 2 dBm
C29_Witness ==
    /\ last.ret = "adr"
    /\ cfg.adr_server
    /\ Val(last.call).delivered
    /\ nodes[0].sf = 7 /\ nodes[0].tx_power = 4
    /\ nodes[0].initial_sf > 7 /\ nodes[0].history = <<>>
    /\ event_id_counter = 1

\* C30: with adr_node and adr_server, after every transmission-end in which
\* an ADR request was raised (margin > 0 or PER > 0.1) the node's history is
\* empty, whether sf or tx_power changed or not; without adr_server a request
\* never clears the history, which keeps the entry just appended.
C30_HistoryCleared ==
    [][AdrCalled =>
         LET call    == Val(last'.call)
             request == AdrMarginPositive(nodes[0], call) \/ AdrPerHigh(nodes[0], call)
         IN  /\ (cfg.adr_server /\ request) => nodes'[0].history = <<>>
             /\ ~cfg.adr_server => nodes'[0].history = AdrWindow(nodes[0], call)]_vars

\* a request that changed nothing has cleared the history: a delivery with a
\* margin of 2 dB, less than one step, at an sf that either branch would have
\* changed had it adjusted anything
C30_Witness ==
    /\ last.ret = "adr"
    /\ cfg.adr_server
    /\ event_id_counter = 1
    /\ Val(last.call).delivered
    /\ Val(Val(last.call).last_rssi) - sensitivity_dBm(nodes[0].sf) = 24
    /\ nodes[0].sf = nodes[0].initial_sf
    /\ nodes[0].sf \in 8 .. 11
    /\ nodes[0].history = <<>>

\* the result and gateway_id a resolved record carries
ResolvedResult(r) ==
    IF r.event_id \in server.received_events THEN "Success"
    ELSE IF r.heard = Some(TRUE) THEN "CollisionLoss" ELSE "NoCoverage"
ResolvedGateway(r) ==
    IF r.event_id \in server.received_events
    THEN Some(server.event_gateway[r.event_id]) ELSE None

\* C31: every transmission has exactly one log record; its result is null
\* from its start until its end event is processed, and from then on Success
\* iff the event is in received_events, CollisionLoss iff not delivered but
\* heard, NoCoverage iff heard by none; gateway_id is the reporting gateway
\* for Success and null otherwise; a Success record has heard = true.
C31_LogResult ==
    /\ \A e \in event_queue :
          e.priority = 0 => \E i \in TxRecords : events_log[i].event_id = e.event_id
    /\ \A i \in TxRecords :
          LET r == events_log[i]
          IN  /\ \A j \in TxRecords : events_log[j].event_id = r.event_id => j = i
              /\ EndPending(r.event_id) => r.result = "None" /\ IsNone(r.gateway_id)
              /\ ~EndPending(r.event_id) =>
                    /\ r.result = ResolvedResult(r)
                    /\ r.gateway_id = ResolvedGateway(r)
              /\ r.result = "Success" => r.heard = Some(TRUE)

PendingMoves(n) == {e \in event_queue : e.priority = 2 /\ e.node = n}

\* C33: between steps the queue holds, per node, at most one pending start,
\* one pending end and one pending mobility event, so at most 3 * num_nodes
\* events; while the packet cap is not reached it holds exactly one pending
\* start per node and, with mobility, exactly one pending mobility event per
\* node.
C33_QueueDiscipline ==
    /\ Cardinality(event_queue) <= 3 * cfg.num_nodes
    /\ \A e \in event_queue : e.node \in NodeIds /\ e.priority \in {0, 1, 2}
    /\ \A n \in NodeIds :
          /\ Cardinality(PendingStarts(n)) <= 1
          /\ Cardinality(PendingEnds(n)) <= 1
          /\ Cardinality(PendingMoves(n)) <= 1
          /\ ~CapReached =>
                /\ Cardinality(PendingStarts(n)) = 1
                /\ cfg.mobility => Cardinality(PendingMoves(n)) = 1

\* two nodes on air, each with its next start and a mobility event put off
\* to the end of its frame
C33_Witness ==
    /\ cfg.num_nodes = 2
    /\ Cardinality(event_queue) = 6
    /\ ~IsNone(last.event) /\ Val(last.event).priority = 2
    /\ \A n \in NodeIds :
          \E m \in PendingMoves(n), e \in PendingEnds(n) : m.time = e.time

\* C34: between steps every entry of a gateway's active_transmissions belongs
\* to a transmission whose end event is pending in the queue, with the same
\* end_time, not earlier than current_time; no gateway holds an entry of a
\* transmission whose end event has been processed, so with an empty queue
\* every active list is empty.
C34_ActiveHasPendingEnd ==
    \A g \in GwIds : \A i \in DOMAIN gateways[g] :
        LET t == gateways[g][i]
        IN  /\ \E e \in event_queue :
                  e.priority = 0 /\ e.event_id = t.event_id /\ e.time = t.end_time
            /\ t.end_time >= current_time


\* C35: Channel.airtime(sf, B) is the preamble time plus the payload time:
\* T_preamble + N_payload * Ts, with Ts = 2^sf ticks, T_preamble = (8 + 4.25) * Ts
\* and N_payload = max(ceil((8B - 4 sf + 44) / (4 (sf - 2 DE))), 0) * 5 + 8.
C35_AirtimeWithPreamble ==
    last.ret = "airtime" =>
        LET sf == Val(last.call)[1]
            B  == Val(last.call)[2]
            Ts == Pow2(sf)
            DE == IF sf >= 11 THEN 1 ELSE 0
            T_preamble == (49 * Ts) \div 4
            N_payload  == Max(CeilDiv(8 * B - 4 * sf + 44, 4 * (sf - 2 * DE)), 0) * 5 + 8
        IN  Val(last.value) = T_preamble + N_payload * Ts


\* the start_reception calls a step makes: <<gateway, event_id>>
StartReceptionCalls == trace'.started \ trace.started

C36_OnePerSf ==
    \A g \in GwIds :
        /\ \A i, j \in DOMAIN gateways[g] :
               gateways[g][i].sf = gateways[g][j].sf => i = j
        /\ \A i \in DOMAIN gateways[g] : ~gateways[g][i].lost_flag

C36_OnAirAtStart ==
    StartProcessed =>
        \A c \in StartReceptionCalls : \A i \in DOMAIN gateways[c[1]] :
            gateways[c[1]][i].end_time > current_time'

\* C36: in the kernel every gateway's active_transmissions holds at most one
\* entry per spreading factor and no entry with lost_flag set, and whenever the
\* kernel calls start_reception every entry of that gateway has end_time > now.
C36_ActiveOnePerSf == []C36_OnePerSf /\ [][C36_OnAirAtStart]_vars


\* C37: with packets_to_send = K > 0, packets_sent never exceeds K, whatever
\* the number of nodes and the order of their start events.
C37_SentAtMostCap ==
    cfg.packets_to_send > 0 => stats.packets_sent <= cfg.packets_to_send

\* two nodes, the cap reached by a start of node 0 at the very instant at
\* which the next start of node 1 was due (periodic mode: the end of its last
\* transmission plus packet_interval); node 1 never started again
C37_Witness ==
    /\ cfg.num_nodes = 2 /\ cfg.transmission_mode = "Periodic"
    /\ cfg.packets_to_send > 0 /\ stats.packets_sent = cfg.packets_to_send
    /\ \E i \in TxRecordsOf(0), j \in TxRecordsOf(1) :
          /\ events_log[j].end_time + cfg.packet_interval = events_log[i].start_time
          /\ \A k \in TxRecordsOf(1) : events_log[k].start_time < events_log[i].start_time
          /\ \A k \in TxRecords : k <= i


\* the calls of NetworkServer.receive a step makes: <<gateway, event_id>>
ReceiveCalls(k) == {trace'.reported[i] : i \in (Len(trace.reported) + 1) .. k}

SuccessRecords == {i \in TxRecords : events_log[i].result = "Success"}

C38_Counters ==
    /\ stats.packets_delivered = stats.delivered_count
    /\ stats.delivered_count = server.packets_received
    /\ server.packets_received = Cardinality(server.received_events)
    /\ Cardinality(server.received_events) = Cardinality(SuccessRecords)

C38_NotifiedInOwnEnd ==
    Len(trace'.reported) > Len(trace.reported) =>
        /\ EndProcessed
        /\ \A c \in ReceiveCalls(Len(trace'.reported)) :
              c[2] = Val(last'.event).event_id
        /\ stats'.packets_delivered = stats.packets_delivered + 1
        /\ stats'.delivered_count = stats.delivered_count + 1

\* C38: between steps packets_delivered = delivered_count =
\* server.packets_received = the number of received_events = the number of
\* Success records; the server is notified of an event only in the step that
\* processes that event's own end, and that step counts it as delivered once.
C38_DeliveredOnce == []C38_Counters /\ [][C38_NotifiedInOwnEnd]_vars


C39_OnlyAtOwnEnd ==
    \A n \in NodeIds :
        (nodes'[n].sf # nodes[n].sf \/ nodes'[n].tx_power # nodes[n].tx_power) =>
            EndProcessed /\ Val(last'.event).node = n

C39_AsAtStart ==
    \A e \in event_queue :
        e.priority = 0 =>
            events_log[LogIndex(events_log, e.event_id)].sf = nodes[e.node].sf

\* C39: a node's sf and tx_power change only in the step that processes an end
\* event of that same node; starts, moves and ends of other nodes leave them
\* unchanged, so while a transmission's end is pending the node still has the
\* sf read at its start.
C39_SfPowerFrame == [][C39_OnlyAtOwnEnd]_vars /\ []C39_AsAtStart

\* two nodes: the end of a transmission of node 0 has just moved node 0 off its
\* initial sf while node 1 is on air, unchanged
C39_Witness ==
    /\ cfg.num_nodes = 2
    /\ ~IsNone(last.event) /\ Val(last.event).priority = 0 /\ Val(last.event).node = 0
    /\ nodes[0].sf # nodes[0].initial_sf
    /\ nodes[0].history = <<>>
    /\ nodes[1].in_transmission
    /\ nodes[1].sf = nodes[1].initial_sf


\* the queue is empty, the K packets were sent and every transmission record
\* has its result
RunComplete ==
    /\ event_queue = {}
    /\ stats.packets_sent = cfg.packets_to_send
    /\ \A i \in TxRecords : events_log[i].result # "None"

\* C40: with packets_to_send = K > 0, run() without max_steps reaches an empty
\* queue after finitely many events with packets_sent = K and every one of the
\* K transmissions resolved; with packets_to_send = 0 the queue is never empty.
C40_RunTerminates ==
    /\ (cfg.packets_to_send > 0) => <>RunComplete
    /\ [](cfg.packets_to_send = 0 => event_queue # {})

====
